---------------------------- MODULE Spec2Model ----------------------------
(***************************************************************************)
(* A model of the substrait-expr crate: the extension registry, the type  *)
(* helpers, schema resolution, function-call resolution and the           *)
(* expressions builder.                                                    *)
(*                                                                         *)
(* Strings that are concatenated or compared character by character        *)
(* (uris, names, registry keys) are sequences of one-character strings,    *)
(* so that String + &str is \o.  Well-known constant strings are a         *)
(* one-element sequence holding the whole text.                            *)
(*                                                                         *)
(* A call that returns Result<T> is a record with a field res that is     *)
(* "Ok", "InvalidInput" or "InvalidSubstrait"; a call that unwinds         *)
(* (todo!(), an index out of range) has res = "panic".                     *)
(***************************************************************************)
EXTENDS Integers, Sequences, FiniteSets, TLC

VARIABLES
    registry,           \* RegistryInternal of the schema's ExtensionsRegistry
    functionsRegistry,  \* FunctionRegistryInternal behind FunctionsBuilder
    schema,             \* the SchemaInfo owned by the ExpressionsBuilder
    expressions,        \* ExpressionsBuilder.expressions
    message,            \* the ExtendedExpression returned by build(), or NotBuilt
    call,               \* outcome of the last FunctionBuilder::build
    lastOp,             \* the last operation: its name, arguments and return value
    firstType,          \* history: (uri,name) -> anchor first returned by register_type
    firstFunction,      \* history: (uri,name) -> anchor first returned by register_function
    accepted,           \* history: the (names, expr) of every successful add_expression
    params,             \* the BuilderParams of the ExpressionsBuilder
    iter,               \* a NamedRefIter over a path string, or NoIter
    elements,           \* history: the items the NamedRefIter has yielded so far
    threads,            \* per thread: where it stands in its call on the shared registry
    lock,               \* the RwLock around RegistryInternal: its writer and its readers
    returned,           \* history: the (kind, uri, name, anchor) of every returned register call
    builders            \* the TypesOnlySchemaBuilders in use: the root builder, then the
                        \* builder of every nested() callback that is running

vars == <<registry, functionsRegistry, schema, expressions, message, call,
          lastOp, firstType, firstFunction, accepted, params, iter, elements,
          threads, lock, returned, builders>>

-----------------------------------------------------------------------------
(* Bounds of the model *)

\* new anchors are handed out only while the counter is at most MaxAnchor
MaxAnchor == 2
\* the builder accepts at most MaxExprs expressions
MaxExprs == 2

-----------------------------------------------------------------------------
(* BTreeMap *)

EmptyMap == <<>>

MapInsert(m, k, v) == [x \in (DOMAIN m) \cup {k} |-> IF x = k THEN v ELSE m[x]]

MapValues(m) == {m[k] : k \in DOMAIN m}

\* let x = v; F(x): v is evaluated once
With(v, F(_)) == CHOOSE r \in {F(x) : x \in {v}} : TRUE

-----------------------------------------------------------------------------
(* helpers/types.rs *)

NO_VARIATION == 0

UNKNOWN_TYPE_URI == <<"https://substrait.io/types">>
UNKNOWN_TYPE_NAME == <<"unknown">>

\* A Type: kind is the discriminant of r#type::Kind ("none" when the kind is
\* absent), types the members of a struct, type_reference the anchor of a
\* user defined type, length the parameter of a fixed_char.
MkType(kind, nullable, types, type_reference, length) ==
    [kind |-> kind, nullable |-> nullable, types |-> types,
     type_reference |-> type_reference, length |-> length]

simple_type(kind, nullable) == MkType(kind, nullable, <<>>, 0, 0)

i32(nullable) == simple_type("i32", nullable)
i64(nullable) == simple_type("i64", nullable)
fp32(nullable) == simple_type("fp32", nullable)
fp64(nullable) == simple_type("fp64", nullable)
string(nullable) == simple_type("string", nullable)
struct_(children, nullable) == MkType("struct", nullable, children, 0, 0)
user_defined(type_reference, nullable) ==
    MkType("user_defined", nullable, <<>>, type_reference, 0)
\* a Type message whose kind is absent
NoKind == simple_type("none", FALSE)

RECURSIVE SumSeq(_)
SumSeq(s) == IF s = <<>> THEN 0 ELSE Head(s) + SumSeq(Tail(s))

RECURSIVE num_types(_)
num_types(t) ==
    IF t.kind = "struct"
    THEN SumSeq([i \in 1..Len(t.types) |-> num_types(t.types[i])]) + 1
    ELSE 1

children(t) == IF t.kind = "struct" THEN t.types ELSE <<>>

\* Result<bool>
same_kind(a, b) ==
    IF a.kind = "none" \/ b.kind = "none"
    THEN [res |-> "InvalidSubstrait", val |-> FALSE]
    ELSE [res |-> "Ok", val |-> a.kind = b.kind]

-----------------------------------------------------------------------------
(* helpers/registry.rs *)

DefaultRegistry ==
    [functions |-> EmptyMap, functions_inverse |-> EmptyMap,
     types |-> EmptyMap, types_inverse |-> EmptyMap, counter |-> 1]

None == [some |-> FALSE]
Some(v) == [some |-> TRUE, val |-> v]

QualifiedName(uri, name) == [uri |-> uri, name |-> name]

lookup_type(internal, anchor) ==
    IF anchor \in DOMAIN internal.types_inverse
    THEN Some(QualifiedName(internal.types_inverse[anchor].uri,
                            internal.types_inverse[anchor].name))
    ELSE None

lookup_function(internal, anchor) ==
    IF anchor \in DOMAIN internal.functions_inverse
    THEN Some(QualifiedName(internal.functions_inverse[anchor].uri,
                            internal.functions_inverse[anchor].name))
    ELSE None

\* a plausible slip: the entry is overwritten instead of kept
register_type_always_new(internal, uri, name) ==
    LET key == uri \o name
        anchor == internal.counter
        type_record == [uri |-> uri, name |-> name, anchor |-> anchor]
    IN  [internal |-> [internal EXCEPT
                         !.counter = @ + 1,
                         !.types = MapInsert(@, key, type_record),
                         !.types_inverse = MapInsert(@, anchor, type_record)],
         anchor |-> anchor]

register_type(internal, uri, name) ==
    LET key == uri \o name IN
    IF key \in DOMAIN internal.types
    THEN [internal |-> internal, anchor |-> internal.types[key].anchor]
    ELSE LET anchor == internal.counter
             type_record == [uri |-> uri, name |-> name, anchor |-> anchor]
         IN  [internal |-> [internal EXCEPT
                              !.counter = @ + 1,
                              !.types = MapInsert(@, key, type_record),
                              !.types_inverse = MapInsert(@, anchor, type_record)],
              anchor |-> anchor]

register_function(internal, uri, name) ==
    LET key == uri \o name IN
    IF key \in DOMAIN internal.functions
    THEN [internal |-> internal, anchor |-> internal.functions[key].anchor]
    ELSE LET anchor == internal.counter
             function_record == [uri |-> uri, name |-> name, anchor |-> anchor]
         IN  [internal |-> [internal EXCEPT
                              !.counter = @ + 1,
                              !.functions = MapInsert(@, key, function_record),
                              !.functions_inverse = MapInsert(@, anchor, function_record)],
              anchor |-> anchor]

is_unknown(t, internal) ==
    /\ t.kind = "user_defined"
    /\ lookup_type(internal, t.type_reference)
         = Some(QualifiedName(UNKNOWN_TYPE_URI, UNKNOWN_TYPE_NAME))

-----------------------------------------------------------------------------
(* builder/functions.rs: the registry behind FunctionsBuilder *)

NewFunctionsRegistry == [function_map |-> EmptyMap, counter |-> 1]

FunctionRegistryInternal_register(internal, uri, name) ==
    LET key == uri \o name IN
    IF key \in DOMAIN internal.function_map
    THEN [internal |-> internal, anchor |-> internal.function_map[key].anchor]
    ELSE LET counter == internal.counter IN
         [internal |-> [internal EXCEPT
                          !.counter = @ + 1,
                          !.function_map =
                              MapInsert(@, key, [uri |-> uri, name |-> name,
                                                 anchor |-> counter])],
          anchor |-> counter]


-----------------------------------------------------------------------------
(* builder/functions.rs: function definitions *)

\* ImplementationArg: tag is "Enum" (vals: the allowed values) or "Value"
\* (typ: the expected type)
EnumArg(name, vals) == [name |-> name, tag |-> "Enum", vals |-> vals, typ |-> NoKind]
ValueArg(name, typ) == [name |-> name, tag |-> "Value", vals |-> <<>>, typ |-> typ]

FunctionImplementation(args, output_type) == [args |-> args, output_type |-> output_type]

FunctionDefinition(uri, name, implementations) ==
    [uri |-> uri, name |-> name, implementations |-> implementations]

\* add: (i32,i32) -> i32 and (fp64,fp64) -> fp64
ADD ==
    FunctionDefinition(<<"a">>, <<"b", "c">>,
        << FunctionImplementation(<<ValueArg("x", i32(FALSE)), ValueArg("y", i32(FALSE))>>,
                                  i32(FALSE)),
           FunctionImplementation(<<ValueArg("x", fp64(FALSE)), ValueArg("y", fp64(FALSE))>>,
                                  fp64(FALSE)) >>)

\* extract: (enum component, i64) -> i64
EXTRACT ==
    FunctionDefinition(<<"a", "b">>, <<"c">>,
        << FunctionImplementation(<<EnumArg("component", <<"YEAR", "MONTH">>),
                                    ValueArg("x", i64(FALSE))>>,
                                  i64(FALSE)) >>)

\* negate: two kernels of the same kind that differ in nullability only,
\* and one over strings whose declared output is the user defined type with
\* anchor 1
NEGATE ==
    FunctionDefinition(<<"a">>, <<"c">>,
        << FunctionImplementation(<<ValueArg("x", i32(TRUE))>>, i64(TRUE)),
           FunctionImplementation(<<ValueArg("x", i32(FALSE))>>, i32(FALSE)),
           FunctionImplementation(<<ValueArg("x", string(FALSE))>>, user_defined(1, TRUE)) >>)

Catalog == {ADD, EXTRACT, NEGATE}

-----------------------------------------------------------------------------
(* builder/types.rs *)

\* unknown(registry): registers the unknown type and returns it with its anchor
unknown(internal) ==
    LET r == register_type(internal, UNKNOWN_TYPE_URI, UNKNOWN_TYPE_NAME) IN
    [typ |-> user_defined(r.anchor, TRUE), registry |-> r.internal]

-----------------------------------------------------------------------------
(* helpers/schema.rs *)

\* SchemaInfo: variant is "Empty", "Names", "Types" or "Full"; children are
\* the root's NamesOnlySchemaNodes or FullSchemaNodes, types the members of
\* the root Struct of a types-only schema.
EmptySchema == [variant |-> "Empty", children |-> <<>>, types |-> <<>>]
NamesOnlySchema(root_nodes) == [variant |-> "Names", children |-> root_nodes, types |-> <<>>]
TypesOnlySchema(types) == [variant |-> "Types", children |-> <<>>, types |-> types]
FullSchema(root_children) == [variant |-> "Full", children |-> root_children, types |-> <<>>]

NamesOnlySchemaNode(name, node_children) == [name |-> name, children |-> node_children]
FullSchemaNode(name, typ, node_children) ==
    [name |-> name, type |-> typ, children |-> node_children]

\* ReferenceSegment: reference_type is "struct_field" (field), "list_element"
\* (offset), "map_key" (map_key) or "none" when the oneof is absent
StructField(field, child) == [reference_type |-> "struct_field", field |-> field, child |-> child]
ListElement(offset, child) == [reference_type |-> "list_element", offset |-> offset, child |-> child]
MapKey(map_key, child) == [reference_type |-> "map_key", map_key |-> map_key, child |-> child]
NoReferenceType == [reference_type |-> "none"]

\* Result<Type>
OkType(t) == [res |-> "Ok", val |-> t]
ErrType(kind) == [res |-> kind, val |-> NoKind]

\* cur[field as usize]: a negative i32 becomes a usize of at least 2^31, which
\* is past the end of every Vec, so the index is in range iff 0 <= field < len
InRange(field, len) == field >= 0 /\ field < len

\* SchemaInfo::Types arm of resolve_type: the loop matches on ref_seg again in
\* every iteration (ref_seg is never replaced by its child)
RECURSIVE resolve_type_types(_, _)
resolve_type_types(cur, ref_seg) ==
    CASE ref_seg.reference_type = "none" -> ErrType("InvalidSubstrait")
      [] ref_seg.reference_type = "struct_field" ->
            IF ~InRange(ref_seg.field, Len(cur))
            THEN ErrType("panic")
            ELSE LET field == cur[ref_seg.field + 1] IN
                 IF ref_seg.child.some
                 THEN IF children(field) = <<>>
                      THEN ErrType("InvalidInput")
                      ELSE resolve_type_types(children(field), ref_seg)
                 ELSE OkType(field)
      [] OTHER -> ErrType("panic")

\* a plausible slip: a list-element or map-key step is stepped over and the
\* walk goes on with the step below it
RECURSIVE resolve_type_full_steps_over(_, _)
resolve_type_full_steps_over(cur_children, cur_seg) ==
    CASE cur_seg.reference_type = "none" -> ErrType("InvalidSubstrait")
      [] cur_seg.reference_type = "struct_field" ->
            IF ~InRange(cur_seg.field, Len(cur_children))
            THEN ErrType("panic")
            ELSE LET field == cur_children[cur_seg.field + 1] IN
                 IF cur_seg.child.some
                 THEN IF field.children = <<>>
                      THEN ErrType("InvalidInput")
                      ELSE resolve_type_full_steps_over(field.children, cur_seg.child.val)
                 ELSE OkType(field.type)
      [] OTHER -> IF cur_seg.child.some
                  THEN resolve_type_full_steps_over(cur_children, cur_seg.child.val)
                  ELSE ErrType("panic")

\* SchemaInfo::Full arm of resolve_type
RECURSIVE resolve_type_full(_, _)
resolve_type_full(cur_children, cur_seg) ==
    CASE cur_seg.reference_type = "none" -> ErrType("InvalidSubstrait")
      [] cur_seg.reference_type = "struct_field" ->
            IF ~InRange(cur_seg.field, Len(cur_children))
            THEN ErrType("panic")
            ELSE LET field == cur_children[cur_seg.field + 1] IN
                 IF cur_seg.child.some
                 THEN IF field.children = <<>>
                      THEN ErrType("InvalidInput")
                      ELSE resolve_type_full(field.children, cur_seg.child.val)
                 ELSE OkType(field.type)
      [] OTHER -> ErrType("panic")

\* SchemaInfo::resolve_type; the registry is returned because the unknown type
\* is registered on the way
resolve_type(sch, ref_seg, internal) ==
    LET with_registry(r) == [res |-> r.res, val |-> r.val, registry |-> internal]
        of_unknown(u) == [res |-> "Ok", val |-> u.typ, registry |-> u.registry]
    IN  CASE sch.variant \in {"Empty", "Names"} -> With(unknown(internal), of_unknown)
          [] sch.variant = "Types" ->
                With(resolve_type_types(sch.types, ref_seg), with_registry)
          [] sch.variant = "Full" ->
                With(resolve_type_full(sch.children, ref_seg), with_registry)

-----------------------------------------------------------------------------
(* helpers/literals.rs and helpers/expr.rs *)

\* Expression: rex_type is "literal", "scalar_function", "selection", "none"
\* (the oneof is absent) or another variant of RexType
Literal(literal_type, value, nullable, data_type) ==
    [rex_type |-> "literal", literal_type |-> literal_type, value |-> value,
     nullable |-> nullable, data_type |-> data_type]

\* make_literal for the rust types that have a LiteralInference
literal(literal_type, value) == Literal(literal_type, value, FALSE, NoKind)

ScalarFunction(function_reference, arguments, output_type, options) ==
    [rex_type |-> "scalar_function", function_reference |-> function_reference,
     arguments |-> arguments, output_type |-> output_type, options |-> options]

Selection(root_type, reference_type, segment) ==
    [rex_type |-> "selection", root_type |-> root_type,
     reference_type |-> reference_type, direct_reference |-> segment]

NoRexType == [rex_type |-> "none"]

EnumArgument(value) == [arg_type |-> "Enum", enum |-> value]
ValueArgument(expr) == [arg_type |-> "Value", value |-> expr]

\* LiteralExt::data_type
data_type(lit) ==
    CASE lit.literal_type = "i32" -> OkType(i32(lit.nullable))
      [] lit.literal_type = "i64" -> OkType(i64(lit.nullable))
      [] lit.literal_type = "fp32" -> OkType(fp32(lit.nullable))
      [] lit.literal_type = "fp64" -> OkType(fp64(lit.nullable))
      [] lit.literal_type = "string" -> OkType(string(lit.nullable))
      [] lit.literal_type = "null" -> OkType(lit.data_type)
      [] lit.literal_type = "none" -> ErrType("InvalidSubstrait")
      [] OTHER -> ErrType("panic")

\* ExpressionExt::try_as_literal
try_as_literal(expr) ==
    CASE expr.rex_type = "none" -> "InvalidSubstrait"
      [] expr.rex_type = "literal" -> "Ok"
      [] OTHER -> "InvalidSubstrait"

\* <&str as LiteralInference>::try_from_substrait
str_try_from_substrait(lit) == [res |-> "panic", val |-> ""]

\* ExpressionExt::try_as_rust_literal::<&str>
try_as_rust_literal_str(expr) ==
    CASE try_as_literal(expr) # "Ok" -> [res |-> try_as_literal(expr), val |-> ""]
      [] expr.literal_type = "none" -> [res |-> "InvalidSubstrait", val |-> ""]
      [] OTHER -> str_try_from_substrait(expr)

\* ExpressionExt::output_type
output_type(expr, sch, internal) ==
    LET plain(r) == [res |-> r.res, val |-> r.val, registry |-> internal] IN
    CASE expr.rex_type = "none" -> plain(ErrType("InvalidSubstrait"))
      [] expr.rex_type = "literal" -> plain(data_type(expr))
      [] expr.rex_type = "scalar_function" ->
            IF expr.output_type.some
            THEN plain(OkType(expr.output_type.val))
            ELSE plain(ErrType("InvalidSubstrait"))
      [] expr.rex_type = "selection" ->
            CASE expr.root_type = "none" -> plain(ErrType("InvalidSubstrait"))
              [] expr.root_type = "root_reference" ->
                    CASE expr.reference_type = "none" -> plain(ErrType("InvalidSubstrait"))
                      [] expr.reference_type = "direct_reference" ->
                            resolve_type(sch, expr.direct_reference, internal)
                      [] OTHER -> plain(ErrType("InvalidSubstrait"))
              [] OTHER -> plain(ErrType("panic"))
      [] OTHER -> plain(ErrType("panic"))

-----------------------------------------------------------------------------
(* builder/functions.rs: overload resolution *)

\* ImplementationArg::matches, a Result<bool>
ImplementationArg_matches(imp_arg, arg_type, internal) ==
    IF is_unknown(arg_type, internal)
    THEN [res |-> "Ok", val |-> TRUE]
    ELSE IF imp_arg.tag = "Enum"
         THEN same_kind(arg_type, string(TRUE))
         ELSE same_kind(arg_type, imp_arg.typ)

\* Result<bool>::unwrap_or(false)
unwrap_or_false(r) == IF r.res = "Ok" THEN r.val ELSE FALSE

\* a plausible slip: the arity is not compared, zip stops at the shorter side
matches_without_arity(imp, arg_types, internal) ==
    \A i \in 1..Len(imp.args) :
        i <= Len(arg_types) =>
            unwrap_or_false(ImplementationArg_matches(imp.args[i], arg_types[i], internal))

\* FunctionImplementation::matches
matches(imp, arg_types, internal) ==
    IF Len(arg_types) # Len(imp.args)
    THEN FALSE
    ELSE \A i \in 1..Len(imp.args) :
            unwrap_or_false(ImplementationArg_matches(imp.args[i], arg_types[i], internal))

\* a plausible slip: the declared output type is kept
relax_keeps_output(imp, types, internal) ==
    IF Len(imp.args) # Len(types)
    THEN [res |-> "InvalidInput", val |-> imp, registry |-> internal]
    ELSE [res |-> "Ok",
          val |-> FunctionImplementation(
                      [i \in 1..Len(imp.args) |->
                          IF is_unknown(types[i], internal)
                          THEN ValueArg(imp.args[i].name, types[i])
                          ELSE imp.args[i]],
                      imp.output_type),
          registry |-> internal]

\* FunctionImplementation::relax
relax(imp, types, internal) ==
    IF Len(imp.args) # Len(types)
    THEN [res |-> "InvalidInput", val |-> imp, registry |-> internal]
    ELSE LET relaxed_args == [i \in 1..Len(imp.args) |->
                                 IF is_unknown(types[i], internal)
                                 THEN ValueArg(imp.args[i].name, types[i])
                                 ELSE imp.args[i]]
             has_unknown == \E i \in 1..Len(types) : is_unknown(types[i], internal)
             of_unknown(u) == [res |-> "Ok",
                               val |-> FunctionImplementation(relaxed_args, u.typ),
                               registry |-> u.registry]
         IN  IF has_unknown
             THEN With(unknown(internal), of_unknown)
             ELSE [res |-> "Ok",
                   val |-> FunctionImplementation(relaxed_args, imp.output_type),
                   registry |-> internal]

\* args.iter().map(|arg| arg.output_type(schema)).collect::<Result<Vec<_>>>():
\* the types in order, or the first failure
RECURSIVE output_types(_, _, _)
output_types(args, sch, internal) ==
    IF args = <<>>
    THEN [res |-> "Ok", val |-> <<>>, registry |-> internal]
    ELSE LET after(first) ==
                 IF first.res # "Ok"
                 THEN [res |-> first.res, val |-> <<>>, registry |-> first.registry]
                 ELSE LET cons(rest) ==
                              [res |-> rest.res,
                               val |-> IF rest.res = "Ok" THEN <<first.val>> \o rest.val
                                                          ELSE <<>>,
                               registry |-> rest.registry]
                      IN  With(output_types(Tail(args), sch, first.registry), cons)
         IN  With(output_type(Head(args), sch, internal), after)

\* the implementations that match, by position in the declaration
matching(func, types, internal) ==
    {i \in 1..Len(func.implementations) : matches(func.implementations[i], types, internal)}

\* a plausible slip: the last matching implementation is taken
find_last(func, types, internal) ==
    LET last(M) == IF M = {} THEN 0 ELSE CHOOSE i \in M : \A j \in M : j <= i
    IN  With(matching(func, types, internal), last)

\* implementations.iter().find(|imp| imp.matches(&types)): the position of the
\* first match, 0 for None
find(func, types, internal) ==
    LET first(M) == IF M = {} THEN 0 ELSE CHOOSE i \in M : \A j \in M : i <= j
    IN  With(matching(func, types, internal), first)

\* FunctionDefinition::pick_implementation_from_args: picked is the position
\* of the selected implementation (0 for Ok(None)), val its relaxed form
pick_implementation_from_args(func, args, sch, internal) ==
    LET none(types) ==
            [res |-> types.res, picked |-> 0, val |-> FunctionImplementation(<<>>, NoKind),
             types |-> types.val, registry |-> types.registry]
        found(types) ==
            LET relaxed(i) ==
                    LET some(r) == [res |-> r.res, picked |-> i, val |-> r.val,
                                    types |-> types.val, registry |-> r.registry]
                    IN  IF i = 0
                        THEN none(types)
                        ELSE With(relax(func.implementations[i], types.val, types.registry),
                                  some)
            IN  IF types.res # "Ok"
                THEN none(types)
                ELSE With(find(func, types.val, types.registry), relaxed)
    IN  With(output_types(args, sch, internal), found)

\* the closure of FunctionBuilder::build that turns one argument into a
\* FunctionArgument
convert_argument(arg, imp_arg) ==
    LET checked(value) ==
            IF value.res # "Ok"
            THEN [res |-> value.res, val |-> EnumArgument("")]
            ELSE IF \E i \in 1..Len(imp_arg.vals) : imp_arg.vals[i] = value.val
                 THEN [res |-> "Ok", val |-> EnumArgument(value.val)]
                 ELSE [res |-> "InvalidInput", val |-> EnumArgument("")]
    IN  IF imp_arg.tag = "Enum"
        THEN With(try_as_rust_literal_str(arg), checked)
        ELSE [res |-> "Ok", val |-> ValueArgument(arg)]

\* .map(...).collect::<Result<Vec<_>>>(): the arguments in order, or the
\* first failure
RECURSIVE convert_arguments(_, _)
convert_arguments(args, imp_args) ==
    IF args = <<>> \/ imp_args = <<>>
    THEN [res |-> "Ok", val |-> <<>>]
    ELSE LET after(first) ==
                 IF first.res # "Ok"
                 THEN [res |-> first.res, val |-> <<>>]
                 ELSE LET cons(rest) ==
                              [res |-> rest.res,
                               val |-> IF rest.res = "Ok" THEN <<first.val>> \o rest.val
                                                          ELSE <<>>]
                      IN  With(convert_arguments(Tail(args), Tail(imp_args)), cons)
         IN  With(convert_argument(Head(args), Head(imp_args)), after)

\* FunctionBuilder::build
FunctionBuilder_build(func, func_reference, args, sch, internal) ==
    LET built(implementation) ==
            LET failed(kind) == [res |-> kind, expr |-> NoRexType,
                                 picked |-> implementation.picked,
                                 implementation |-> implementation.val,
                                 types |-> implementation.types,
                                 registry |-> implementation.registry]
                converted(arguments) ==
                    IF arguments.res # "Ok"
                    THEN failed(arguments.res)
                    ELSE [res |-> "Ok",
                          expr |-> ScalarFunction(func_reference, arguments.val,
                                                  Some(implementation.val.output_type),
                                                  <<>>),
                          picked |-> implementation.picked,
                          implementation |-> implementation.val,
                          types |-> implementation.types,
                          registry |-> implementation.registry]
            IN  IF implementation.res # "Ok"
                THEN failed(implementation.res)
                ELSE IF implementation.picked = 0
                THEN failed("InvalidInput")
                ELSE With(convert_arguments(args, implementation.val.args), converted)
    IN  With(pick_implementation_from_args(func, args, sch, internal), built)

-----------------------------------------------------------------------------
(* builder.rs: ExpressionsBuilder *)

NamedExpression(expr, output_names) == [expr |-> expr, output_names |-> output_names]

\* a plausible slip: the number of names is not compared
try_new_any_names(expr, output_names, sch, internal) ==
    LET checked(expr_type) ==
            [res |-> expr_type.res, val |-> NamedExpression(expr, output_names),
             registry |-> expr_type.registry]
    IN  With(output_type(expr, sch, internal), checked)

\* NamedExpression::try_new
try_new(expr, output_names, sch, internal) ==
    LET checked(expr_type) ==
            [res |-> IF expr_type.res # "Ok"
                     THEN expr_type.res
                     ELSE IF num_types(expr_type.val) # Len(output_names)
                     THEN "InvalidInput"
                     ELSE "Ok",
             val |-> NamedExpression(expr, output_names),
             registry |-> expr_type.registry]
    IN  With(output_type(expr, sch, internal), checked)

\* a plausible slip: the entry is pushed before it is validated
add_expression_push_first(exprs, output_names, expression, sch, internal) ==
    LET pushed(named) ==
            [res |-> named.res,
             expressions |-> IF named.res = "panic" THEN exprs ELSE Append(exprs, named.val),
             registry |-> named.registry]
    IN  With(try_new(expression, output_names, sch, internal), pushed)

\* ExpressionsBuilder::add_expression
add_expression(exprs, output_names, expression, sch, internal) ==
    LET pushed(named) ==
            [res |-> named.res,
             expressions |-> IF named.res = "Ok" THEN Append(exprs, named.val) ELSE exprs,
             registry |-> named.registry]
    IN  With(try_new(expression, output_names, sch, internal), pushed)

ExpressionReference(named_expr) ==
    [output_names |-> named_expr.output_names, expr |-> named_expr.expr]

\* a plausible slip: the entries come out last first
build_reversed(exprs) ==
    [built |-> TRUE,
     referred_expr |-> [i \in 1..Len(exprs) |->
                           ExpressionReference(exprs[Len(exprs) + 1 - i])]]

\* ExpressionsBuilder::build: the referred_expr of the ExtendedExpression
build(exprs) ==
    [built |-> TRUE,
     referred_expr |-> [i \in 1..Len(exprs) |-> ExpressionReference(exprs[i])]]

-----------------------------------------------------------------------------
(* Sample schemas and expressions: the schema used throughout the crate's
   tests, {score: i32, location: {x: fp32, y: fp64?}}, in its four variants *)

LocationType == struct_(<<fp32(FALSE), fp64(TRUE)>>, FALSE)

SampleFull ==
    FullSchema(<< FullSchemaNode("score", i32(FALSE), <<>>),
                  FullSchemaNode("location", LocationType,
                                 << FullSchemaNode("x", fp32(FALSE), <<>>),
                                    FullSchemaNode("y", fp64(TRUE), <<>>) >>) >>)

SampleTypes == TypesOnlySchema(<<i32(FALSE), LocationType>>)

SampleNames ==
    NamesOnlySchema(<< NamesOnlySchemaNode("score", <<>>),
                       NamesOnlySchemaNode("location",
                                           << NamesOnlySchemaNode("x", <<>>),
                                              NamesOnlySchemaNode("y", <<>>) >>) >>)

Schemas == {EmptySchema, SampleNames, SampleTypes, SampleFull}

\* a direct reference from the root of the schema
RootReference(segment) == Selection("root_reference", "direct_reference", segment)

BuilderExprs ==
    { literal("i32", "3"),
      Literal("null", "", TRUE, LocationType),
      NoRexType,
      ScalarFunction(1, <<>>, None, <<>>),
      RootReference(StructField(0, None)),
      RootReference(StructField(1, None)),
      RootReference(StructField(1, Some(StructField(0, None)))),
      RootReference(StructField(0, Some(StructField(0, None)))),
      RootReference(StructField(2, None)),
      RootReference(ListElement(0, None)),
      Selection("root_reference", "masked_reference", NoReferenceType),
      Selection("expression", "direct_reference", StructField(0, None)) }

BuilderNames == {<<"a">>, <<"a", "b", "c">>}

-----------------------------------------------------------------------------
(* helpers/registry.rs: UriLookup and ExtensionsRegistry::to_substrait *)

\* the order of String keys in a BTreeMap: the texts of the model are made of
\* these symbols, listed in increasing order
SymbolOrder == <<"a", "b", "c", "https://substrait.io/functions",
                 "https://substrait.io/types", "lookup_by_name", "unknown">>

Rank(symbol) == CHOOSE i \in 1..Len(SymbolOrder) : SymbolOrder[i] = symbol

StringLess(s, t) ==
    \E k \in 0..Len(s) :
        /\ k <= Len(t)
        /\ \A i \in 1..k : s[i] = t[i]
        /\ \/ k = Len(s) /\ k < Len(t)
           \/ k < Len(s) /\ k < Len(t) /\ Rank(s[k + 1]) < Rank(t[k + 1])

\* the keys of a BTreeMap<String, _> in iteration order
RECURSIVE SortedKeys(_)
SortedKeys(keys) ==
    IF keys = {} THEN <<>>
    ELSE LET least == CHOOSE x \in keys : \A y \in keys \ {x} : StringLess(x, y)
         IN  <<least>> \o SortedKeys(keys \ {least})

\* BTreeMap::values()
ValuesInOrder(m) == [i \in 1..Len(SortedKeys(DOMAIN m)) |-> m[SortedKeys(DOMAIN m)[i]]]

UriLookup_new == [uris |-> EmptyMap, counter |-> 1]

\* UriLookup::register
UriLookup_register(lookup, uri) ==
    IF uri \in DOMAIN lookup.uris
    THEN [lookup |-> lookup, anchor |-> lookup.uris[uri]]
    ELSE [lookup |-> [uris |-> MapInsert(lookup.uris, uri, lookup.counter),
                      counter |-> lookup.counter + 1],
          anchor |-> lookup.counter]

\* UriLookup::to_substrait
UriLookup_to_substrait(lookup) ==
    LET keys == SortedKeys(DOMAIN lookup.uris) IN
    [uris |-> [i \in 1..Len(keys) |->
                  [extension_uri_anchor |-> lookup.uris[keys[i]], uri |-> keys[i]]],
     urns |-> [i \in 1..Len(keys) |->
                  [extension_urn_anchor |-> lookup.uris[keys[i]], urn |-> keys[i]]]]

\* SimpleExtensionDeclaration
ExtensionType(uri_ref, anchor, name) ==
    [mapping_type |-> "extension_type", extension_uri_reference |-> uri_ref,
     extension_urn_reference |-> uri_ref, anchor |-> anchor, name |-> name]
ExtensionFunction(uri_ref, anchor, name) ==
    [mapping_type |-> "extension_function", extension_uri_reference |-> uri_ref,
     extension_urn_reference |-> uri_ref, anchor |-> anchor, name |-> name]

\* the loop of add_types / add_functions over the records in map order
RECURSIVE add_records(_, _, _, _)
add_records(records, mapping_type, uris, extensions) ==
    IF records = <<>>
    THEN [uris |-> uris, extensions |-> extensions]
    ELSE LET r == UriLookup_register(uris, Head(records).uri)
             declaration == IF mapping_type = "extension_type"
                            THEN ExtensionType(r.anchor, Head(records).anchor,
                                               Head(records).name)
                            ELSE ExtensionFunction(r.anchor, Head(records).anchor,
                                                   Head(records).name)
         IN  add_records(Tail(records), mapping_type, r.lookup,
                         Append(extensions, declaration))

\* ExtensionsRegistry::add_types
add_types(internal, uris, extensions) ==
    add_records(ValuesInOrder(internal.types), "extension_type", uris, extensions)

\* ExtensionsRegistry::add_functions
add_functions(internal, uris, extensions) ==
    add_records(ValuesInOrder(internal.functions), "extension_function", uris, extensions)

\* ExtensionsRegistry::to_substrait
to_substrait(internal) ==
    LET t == add_types(internal, UriLookup_new, <<>>)
        f == add_functions(internal, t.uris, t.extensions)
    IN  [uris |-> UriLookup_to_substrait(f.uris).uris,
         urns |-> UriLookup_to_substrait(f.uris).urns,
         extensions |-> f.extensions]

-----------------------------------------------------------------------------
(* Sample (uri, name) pairs handed to the registry *)

Uris == {<<"a">>, <<"a", "b">>}
Names == {<<"c">>, <<"b", "c">>}
Pairs == {QualifiedName(u, n) : u \in Uris, n \in Names}

NoOp == [op |-> "none"]
NotBuilt == [built |-> FALSE]
NoCall == [res |-> "none"]
NoIter == [val |-> <<>>, chars |-> <<>>, exhausted |-> TRUE, in_brackets |-> FALSE]

\* no thread is modelled
NoThreads == <<>>

\* RwLock::new: no writer and no readers
Unlocked == [writer |-> "none", readers |-> {}]

\* builder.rs BuilderParams
BuilderParams(allow_late_name_lookup, allow_loose_types, allow_unknown_types) ==
    [allow_late_name_lookup |-> allow_late_name_lookup,
     allow_loose_types |-> allow_loose_types,
     allow_unknown_types |-> allow_unknown_types]

BuilderParams_default == BuilderParams(FALSE, FALSE, FALSE)
BuilderParams_new_loose == BuilderParams(TRUE, TRUE, TRUE)

-----------------------------------------------------------------------------
(* The extension registry as a state machine *)

InitRegistry ==
    /\ registry = DefaultRegistry
    /\ functionsRegistry = NewFunctionsRegistry
    /\ schema = EmptySchema
    /\ expressions = <<>>
    /\ message = NotBuilt
    /\ call = NoCall
    /\ lastOp = NoOp
    /\ params = BuilderParams_default
    /\ iter = NoIter
    /\ elements = <<>>
    /\ threads = NoThreads
    /\ lock = Unlocked
    /\ returned = {}
    /\ builders = <<>>
    /\ firstType = EmptyMap
    /\ firstFunction = EmptyMap
    /\ accepted = <<>>

Remember(m, k, v) == IF k \in DOMAIN m THEN m ELSE MapInsert(m, k, v)

\* ExtensionsRegistry::register_type
RegisterType(uri, name) ==
    LET r == register_type(registry, uri, name) IN
    /\ r.internal.counter <= MaxAnchor + 1
    /\ registry' = r.internal
    /\ lastOp' = [op |-> "register_type", uri |-> uri, name |-> name, ret |-> r.anchor,
                  again |-> QualifiedName(uri, name) \in DOMAIN firstType]
    /\ firstType' = Remember(firstType, QualifiedName(uri, name), r.anchor)
    /\ UNCHANGED <<builders, threads, lock, returned, params, iter, elements, functionsRegistry, schema, expressions, message, call,
                   firstFunction, accepted>>

\* ExtensionsRegistry::register_function / register_function_by_name
RegisterFunction(uri, name) ==
    LET r == register_function(registry, uri, name) IN
    /\ r.internal.counter <= MaxAnchor + 1
    /\ registry' = r.internal
    /\ lastOp' = [op |-> "register_function", uri |-> uri, name |-> name, ret |-> r.anchor,
                  again |-> QualifiedName(uri, name) \in DOMAIN firstFunction]
    /\ firstFunction' = Remember(firstFunction, QualifiedName(uri, name), r.anchor)
    /\ UNCHANGED <<builders, threads, lock, returned, params, iter, elements, functionsRegistry, schema, expressions, message, call,
                   firstType, accepted>>

\* ExtensionsRegistry::lookup_type
LookupType(anchor) ==
    /\ lastOp' = [op |-> "lookup_type", anchor |-> anchor,
                  ret |-> lookup_type(registry, anchor)]
    /\ UNCHANGED <<builders, threads, lock, returned, params, iter, elements, registry, functionsRegistry, schema, expressions, message, call,
                   firstType, firstFunction, accepted>>

\* ExtensionsRegistry::lookup_function
LookupFunction(anchor) ==
    /\ lastOp' = [op |-> "lookup_function", anchor |-> anchor,
                  ret |-> lookup_function(registry, anchor)]
    /\ UNCHANGED <<builders, threads, lock, returned, params, iter, elements, registry, functionsRegistry, schema, expressions, message, call,
                   firstType, firstFunction, accepted>>

\* FunctionsBuilder::new_builder: the function is registered and its anchor
\* becomes the func_reference of the FunctionBuilder
NewBuilder(func) ==
    LET r == FunctionRegistryInternal_register(functionsRegistry, func.uri, func.name) IN
    /\ r.internal.counter <= MaxAnchor + 1
    /\ functionsRegistry' = r.internal
    /\ lastOp' = [op |-> "new_builder", uri |-> func.uri, name |-> func.name,
                  ret |-> r.anchor]
    /\ UNCHANGED <<builders, threads, lock, returned, params, iter, elements, registry, schema, expressions, message, call,
                   firstType, firstFunction, accepted>>

\* ExtensionsRegistry::to_substrait
ToSubstrait ==
    /\ lastOp' = [op |-> "to_substrait", ret |-> to_substrait(registry)]
    /\ UNCHANGED <<builders, threads, lock, returned, registry, functionsRegistry, schema, expressions, message, call,
                   firstType, firstFunction, accepted, params, iter, elements>>

NextRegistry ==
    \/ ToSubstrait
    \/ \E u \in Uris, n \in Names : RegisterType(u, n)
    \/ \E u \in Uris, n \in Names : RegisterFunction(u, n)
    \/ \E a \in 0..MaxAnchor : LookupType(a)
    \/ \E a \in 0..MaxAnchor : LookupFunction(a)
    \/ \E f \in Catalog : NewBuilder(f)

SpecRegistry == InitRegistry /\ [][NextRegistry]_vars


-----------------------------------------------------------------------------
(* Claims about the registry, checked under SpecRegistry *)

\* C4: registering a (uri,name) pair that was already registered in that
\* namespace returns the anchor returned the first time and changes neither
\* the counter nor any forward or inverse map entry.
C4_ReRegistrationIsIdempotent ==
    [][ /\ (/\ lastOp'.op = "register_type"
            /\ QualifiedName(lastOp'.uri, lastOp'.name) \in DOMAIN firstType)
           => /\ lastOp'.ret = firstType[QualifiedName(lastOp'.uri, lastOp'.name)]
              /\ registry' = registry
        /\ (/\ lastOp'.op = "register_function"
            /\ QualifiedName(lastOp'.uri, lastOp'.name) \in DOMAIN firstFunction)
           => /\ lastOp'.ret = firstFunction[QualifiedName(lastOp'.uri, lastOp'.name)]
              /\ registry' = registry ]_vars

\* a type is registered a second time after other registrations have moved
\* the counter on
C4_Witness ==
    /\ lastOp.op = "register_type"
    /\ lastOp.again
    /\ lastOp.ret = 1
    /\ registry.counter = 3
    /\ DOMAIN firstFunction # {}

\* C5 (as claimed): a function anchor obtained through the schema's
\* FunctionsBuilder never equals a type anchor of the same schema, because all
\* anchors come from one counter shared by types and functions.
C5_FunctionAnchorNeverEqualsTypeAnchor ==
    \A f \in MapValues(functionsRegistry.function_map), t \in MapValues(registry.types) :
        f.anchor # t.anchor

\* C6 (as claimed): within one namespace two different (uri,name) pairs never
\* receive the same anchor, and lookup_type(anchor) returns the pair that was
\* registered under that anchor.
C6_DistinctPairsGetDistinctAnchors ==
    /\ \A p, q \in DOMAIN firstType : p # q => firstType[p] # firstType[q]
    /\ \A p \in DOMAIN firstType : lookup_type(registry, firstType[p]) = Some(p)
    /\ \A p, q \in DOMAIN firstFunction : p # q => firstFunction[p] # firstFunction[q]

-----------------------------------------------------------------------------
(* The ExpressionsBuilder as a state machine: one builder over one schema *)

InitBuilder ==
    /\ registry = DefaultRegistry
    /\ functionsRegistry = NewFunctionsRegistry
    /\ schema \in Schemas
    /\ expressions = <<>>
    /\ message = NotBuilt
    /\ call = NoCall
    /\ lastOp = NoOp
    /\ params = BuilderParams_default
    /\ iter = NoIter
    /\ elements = <<>>
    /\ threads = NoThreads
    /\ lock = Unlocked
    /\ returned = {}
    /\ builders = <<>>
    /\ firstType = EmptyMap
    /\ firstFunction = EmptyMap
    /\ accepted = <<>>

\* a panic unwinds out of the caller: nothing runs after it
Panicked == lastOp.op \in {"add_expression", "function_build"} /\ lastOp.res = "panic"

Rejected == lastOp.op = "add_expression" /\ lastOp.res \notin {"Ok", "panic"}

\* ExpressionsBuilder::add_expression
AddExpression(output_names, expression) ==
    LET r == add_expression(expressions, output_names, expression, schema, registry) IN
    /\ ~message.built
    /\ ~Panicked
    /\ Len(r.expressions) <= MaxExprs
    /\ expressions' = r.expressions
    /\ registry' = r.registry
    /\ lastOp' = [op |-> "add_expression", names |-> output_names, expr |-> expression,
                  res |-> r.res, after_rejection |-> Rejected]
    /\ accepted' = IF r.res = "Ok"
                   THEN Append(accepted, ExpressionReference(
                                             NamedExpression(expression, output_names)))
                   ELSE accepted
    /\ UNCHANGED <<builders, threads, lock, returned, params, iter, elements, functionsRegistry, schema, message, call, firstType, firstFunction>>

\* ExpressionsBuilder::build consumes the builder
Build ==
    /\ ~message.built
    /\ ~Panicked
    /\ message' = build(expressions)
    /\ lastOp' = [op |-> "build"]
    /\ UNCHANGED <<builders, threads, lock, returned, params, iter, elements, registry, functionsRegistry, schema, expressions, call,
                   firstType, firstFunction, accepted>>

NextBuilder ==
    \/ \E n \in BuilderNames, e \in BuilderExprs : AddExpression(n, e)
    \/ Build

SpecBuilder == InitBuilder /\ [][NextBuilder]_vars

-----------------------------------------------------------------------------
(* Claims about the ExpressionsBuilder, checked under SpecBuilder *)

C2_RejectedAddLeavesListUntouched ==
    [][ lastOp'.op = "add_expression" =>
          LET t == output_type(lastOp'.expr, schema, registry) IN
          /\ lastOp'.res # "Ok" => expressions' = expressions
          /\ (t.res = "Ok" /\ Len(lastOp'.names) = num_types(t.val))
                => /\ lastOp'.res = "Ok"
                   /\ expressions' = Append(expressions,
                                            NamedExpression(lastOp'.expr, lastOp'.names)) ]_vars

\* a valid add right after a rejected one was appended behind an earlier entry
C2_Witness ==
    /\ lastOp.op = "add_expression"
    /\ lastOp.res = "Ok"
    /\ lastOp.after_rejection
    /\ Len(expressions) = 2
    /\ expressions[2] = NamedExpression(lastOp.expr, lastOp.names)

\* C3: the referred_expr list of the built message contains exactly one entry
\* per successful add_expression, in the order the calls were made, each with
\* the output names and the expression passed to that call.
C3_BuildKeepsInsertionOrder ==
    message.built => message.referred_expr = accepted

\* a message was built from two different entries
C3_Witness ==
    /\ message.built
    /\ Len(accepted) = 2
    /\ accepted[1] # accepted[2]
    /\ Len(message.referred_expr) = 2

-----------------------------------------------------------------------------
(* Function calls as a state machine: one FunctionsBuilder over one schema *)

CallArgs ==
    { literal("i32", "3"),
      literal("i64", "7"),
      literal("string", "YEAR"),
      Literal("null", "", TRUE, user_defined(1, TRUE)),
      ScalarFunction(1, <<>>, Some(string(FALSE)), <<>>),
      RootReference(StructField(0, None)) }

CallArgLists ==
    {<<>>} \cup {<<a>> : a \in CallArgs} \cup {<<a, b>> : a \in CallArgs, b \in CallArgs}

MatchTypes ==
    { i32(FALSE), i32(TRUE), fp64(FALSE), string(FALSE), i64(FALSE),
      user_defined(1, TRUE), NoKind }

MatchTypeLists ==
    {<<>>} \cup {<<a>> : a \in MatchTypes} \cup {<<a, b>> : a \in MatchTypes, b \in MatchTypes}

Implementations ==
    UNION {{f.implementations[i] : i \in 1..Len(f.implementations)} : f \in Catalog}

InitCall ==
    /\ registry = DefaultRegistry
    /\ functionsRegistry = NewFunctionsRegistry
    /\ schema \in {EmptySchema, SampleFull}
    /\ expressions = <<>>
    /\ message = NotBuilt
    /\ call = NoCall
    /\ lastOp = NoOp
    /\ params = BuilderParams_default
    /\ iter = NoIter
    /\ elements = <<>>
    /\ threads = NoThreads
    /\ lock = Unlocked
    /\ returned = {}
    /\ builders = <<>>
    /\ firstType = EmptyMap
    /\ firstFunction = EmptyMap
    /\ accepted = <<>>

\* builder/types.rs unknown(registry): hands out the unknown type
Unknown ==
    /\ ~Panicked
    /\ registry' = unknown(registry).registry
    /\ lastOp' = [op |-> "unknown", typ |-> unknown(registry).typ]
    /\ UNCHANGED <<builders, threads, lock, returned, params, iter, elements, functionsRegistry, schema, expressions, message, call,
                   firstType, firstFunction, accepted>>

\* a user's own type is registered
UserDefinedType == ~Panicked /\ RegisterType(<<"a">>, <<"c">>)

\* FunctionsBuilder::new_builder(func, args) followed by FunctionBuilder::build
FunctionBuild(func, args) ==
    \E f \in {FunctionRegistryInternal_register(functionsRegistry, func.uri, func.name)} :
    \E r \in {FunctionBuilder_build(func, f.anchor, args, schema, registry)} :
        /\ ~Panicked
        /\ f.internal.counter <= MaxAnchor + 1
        /\ functionsRegistry' = f.internal
        /\ registry' = r.registry
        /\ call' = [res |-> r.res, expr |-> r.expr, picked |-> r.picked,
                    implementation |-> r.implementation, types |-> r.types]
        /\ lastOp' = [op |-> "function_build", func |-> func, args |-> args,
                      res |-> r.res]
        /\ UNCHANGED <<builders, threads, lock, returned, params, iter, elements, schema, expressions, message, firstType, firstFunction, accepted>>

NextCall ==
    \/ Unknown
    \/ UserDefinedType
    \/ \E f \in Catalog, a \in CallArgLists : FunctionBuild(f, a)

SpecCall == InitCall /\ [][NextCall]_vars

\* FunctionImplementation::matches on its own
Matches(imp, arg_types) ==
    /\ lastOp' = [op |-> "matches", imp |-> imp, types |-> arg_types,
                  ret |-> matches(imp, arg_types, registry)]
    /\ UNCHANGED <<builders, threads, lock, returned, params, iter, elements, registry, functionsRegistry, schema, expressions, message, call,
                   firstType, firstFunction, accepted>>

NextMatch ==
    \/ Unknown
    \/ UserDefinedType
    \/ \E i \in Implementations, t \in MatchTypeLists : Matches(i, t)

SpecMatch == InitCall /\ [][NextMatch]_vars

-----------------------------------------------------------------------------
(* Claims about function calls, checked under SpecCall and SpecMatch *)

\* C7: when the types of the arguments are computed, the implementation
\* selected is the first one, in declaration order, whose matches() is true
\* for those types, and the built call carries its output; when none matches,
\* none is selected and build returns an InvalidInput error and no call.
C7_FirstMatchingImplementationIsPicked ==
    lastOp.op = "function_build" =>
        LET T == output_types(lastOp.args, schema, registry)
            imps == lastOp.func.implementations
            M == {i \in 1..Len(imps) : matches(imps[i], T.val, registry)}
        IN  T.res = "Ok" =>
              /\ M # {} => /\ call.picked \in M
                           /\ \A j \in M : call.picked <= j
              /\ M = {} => /\ call.picked = 0
                           /\ call.res = "InvalidInput"
                           /\ call.expr = NoRexType
              /\ (/\ call.res = "Ok"
                  /\ \A i \in 1..Len(T.val) : ~is_unknown(T.val[i], registry))
                    => \E i \in M : /\ \A j \in M : i <= j
                                    /\ call.expr.output_type = Some(imps[i].output_type)

\* an i32 argument matches two kernels of negate; the call was built with the
\* output type of the first
C7_Witness ==
    /\ lastOp.op = "function_build"
    /\ lastOp.func = NEGATE
    /\ lastOp.args = <<literal("i32", "3")>>
    /\ matches(NEGATE.implementations[2], call.types, registry)
    /\ call.res = "Ok"
    /\ call.picked = 1
    /\ call.expr.output_type = Some(i64(TRUE))

\* C8 (as claimed): the output type of a built call is the unknown sentinel
\* if and only if at least one supplied argument type is unknown; otherwise
\* it is the declared output type of the selected implementation.
C8_OutputUnknownIffArgumentUnknown ==
    (lastOp.op = "function_build" /\ call.res = "Ok") =>
        LET has_unknown == \E i \in 1..Len(call.types) : is_unknown(call.types[i], registry)
            declared == lastOp.func.implementations[call.picked].output_type
        IN  /\ is_unknown(call.expr.output_type.val, registry) <=> has_unknown
            /\ ~has_unknown => call.expr.output_type.val = declared

\* C8 (amended): if at least one supplied argument type is unknown the output
\* type of the built call is the unknown sentinel; otherwise it is the
\* declared output type of the selected implementation (which may itself be
\* the unknown sentinel). In the relaxed implementation every position whose
\* supplied type was unknown is a Value arg of the supplied type, every other
\* position is unchanged, and the arity is the same.
C8_UnknownArgumentMakesOutputUnknown ==
    (lastOp.op = "function_build" /\ call.picked # 0) =>
        LET has_unknown == \E i \in 1..Len(call.types) : is_unknown(call.types[i], registry)
            selected == lastOp.func.implementations[call.picked]
            relaxed == call.implementation
        IN  /\ Len(relaxed.args) = Len(selected.args)
            /\ \A i \in 1..Len(selected.args) :
                  relaxed.args[i] = IF is_unknown(call.types[i], registry)
                                    THEN ValueArg(selected.args[i].name, call.types[i])
                                    ELSE selected.args[i]
            /\ call.res = "Ok" =>
                  /\ has_unknown => is_unknown(call.expr.output_type.val, registry)
                  /\ ~has_unknown => call.expr.output_type.val = selected.output_type

\* add(i32, unknown): the first kernel is selected, its second argument is
\* relaxed to the unknown type and the call's output type is unknown
C8_Witness ==
    /\ lastOp.op = "function_build"
    /\ lastOp.func = ADD
    /\ call.res = "Ok"
    /\ call.picked = 1
    /\ call.types[1] = i32(FALSE)
    /\ is_unknown(call.types[2], registry)
    /\ call.implementation.args[1] = ADD.implementations[1].args[1]
    /\ call.implementation.args[2] = ValueArg("y", call.types[2])
    /\ is_unknown(call.expr.output_type.val, registry)

\* C9: matches(arg_types) is true if and only if the number of supplied types
\* equals the number of declared args and, at every position, the supplied
\* type is the unknown sentinel, or the declared arg is Enum and the supplied
\* type has the kind of string, or the declared arg is Value and the supplied
\* type has the kind of the expected type (nullability ignored).
C9_MatchesIsArityAndKindPerPosition ==
    lastOp.op = "matches" =>
        LET args == lastOp.imp.args
            types == lastOp.types
            kind_of(t, k) == t.kind # "none" /\ k # "none" /\ t.kind = k
        IN  lastOp.ret <=>
              /\ Len(types) = Len(args)
              /\ \A i \in 1..Len(args) :
                    \/ /\ types[i].kind = "user_defined"
                       /\ types[i].type_reference \in DOMAIN registry.types_inverse
                       /\ registry.types_inverse[types[i].type_reference].uri = UNKNOWN_TYPE_URI
                       /\ registry.types_inverse[types[i].type_reference].name = UNKNOWN_TYPE_NAME
                    \/ args[i].tag = "Enum" /\ kind_of(types[i], "string")
                    \/ args[i].tag = "Value" /\ kind_of(types[i], args[i].typ.kind)

\* extract(enum, i64) matches (string, unknown): the enum position by the
\* kind of string, the value position by the wildcard
C9_Witness ==
    /\ lastOp.op = "matches"
    /\ lastOp.ret
    /\ lastOp.imp = EXTRACT.implementations[1]
    /\ lastOp.types[1] = string(FALSE)
    /\ is_unknown(lastOp.types[2], registry)

\* C10 (as claimed): at a position whose selected implementation arg is Enum,
\* build returns Ok with an Enum argument carrying the value when the
\* expression is a string literal of the allowed set, and an error value
\* (never an abort) otherwise; arguments at Value positions pass through.
C10_EnumArgumentsAreConvertedOrRejected ==
    (lastOp.op = "function_build" /\ call.picked # 0) =>
        LET imp_args == call.implementation.args
            args == lastOp.args
            allowed(i) ==
                /\ args[i].rex_type = "literal"
                /\ args[i].literal_type = "string"
                /\ \E k \in 1..Len(imp_args[i].vals) : imp_args[i].vals[k] = args[i].value
            enums == {i \in 1..Len(imp_args) : imp_args[i].tag = "Enum"}
        IN  /\ call.res # "panic"
            /\ (\A i \in enums : allowed(i))
                  => /\ call.res = "Ok"
                     /\ \A i \in 1..Len(imp_args) :
                           call.expr.arguments[i] =
                               IF i \in enums THEN EnumArgument(args[i].value)
                                              ELSE ValueArgument(args[i])
            /\ (\E i \in enums : ~allowed(i))
                  => call.res \in {"InvalidInput", "InvalidSubstrait"}

-----------------------------------------------------------------------------
(* builder/schema.rs: NamedRefIter, the parser of path strings.  A path is   *)
(* a sequence of one-character strings.                                      *)

\* a u32 as two 16-bit halves, so that the whole u32 range can be written
U32(hi, lo) == [hi |-> hi, lo |-> lo]

\* `x as i32` of a u32
as_i32(x) ==
    IF x.hi >= 32768 THEN (x.hi - 65536) * 65536 + x.lo ELSE x.hi * 65536 + x.lo

Digits == <<"0", "1", "2", "3", "4", "5", "6", "7", "8", "9">>
IsDigit(chr) == \E d \in 1..10 : Digits[d] = chr
DigitValue(chr) == (CHOOSE d \in 1..10 : Digits[d] = chr) - 1

\* result.checked_mul(10) followed by checked_add(digit)
checked_mul10_add(x, digit) ==
    LET lo == x.lo * 10 + digit
        hi == x.hi * 10 + lo \div 65536
    IN  IF hi > 65535 THEN None ELSE Some(U32(hi, lo % 65536))

RECURSIVE from_digits(_, _)
from_digits(digits, acc) ==
    IF digits = <<>> THEN Some(acc)
    ELSE IF ~IsDigit(Head(digits)) THEN None
    ELSE IF ~checked_mul10_add(acc, DigitValue(Head(digits))).some THEN None
    ELSE from_digits(Tail(digits), checked_mul10_add(acc, DigitValue(Head(digits))).val)

\* part.parse::<u32>(): an optional '+', then one or more decimal digits whose
\* value fits a u32
parse_u32(part) ==
    LET digits == IF part # <<>> /\ Head(part) = "+" THEN Tail(part) ELSE part IN
    IF digits = <<>> THEN None ELSE from_digits(digits, U32(0, 0))

\* NamedRefElement, and the two other things next() can return
Name(part) == [tag |-> "Name", name |-> part]
ListIndex(idx) == [tag |-> "ListIndex", index |-> idx]
MapLookup(part) == [tag |-> "MapLookup", key |-> part]
Invalid == [tag |-> "Err", res |-> "InvalidInput"]
NoElement == [tag |-> "None"]

NamedRefIter_new(val) ==
    [val |-> val, chars |-> val, exhausted |-> FALSE, in_brackets |-> FALSE]

Yield(it, item) == [iter |-> it, item |-> item]

\* a plausible slip: the character after the closing ] is not looked at
RECURSIVE next_in_brackets_any_follower(_, _)
next_in_brackets_any_follower(it, part) ==
    IF it.chars = <<>>
    THEN Yield(it, Invalid)
    ELSE LET chr == Head(it.chars)
             rest == [it EXCEPT !.chars = Tail(@)]
         IN  IF chr = "]"
             THEN IF part = <<>>
                  THEN Yield(rest, Invalid)
                  ELSE Yield([rest EXCEPT !.chars = IF @ # <<>> /\ Head(@) = "."
                                                    THEN Tail(@) ELSE @,
                                          !.in_brackets = FALSE],
                             IF parse_u32(part).some
                             THEN ListIndex(parse_u32(part).val)
                             ELSE MapLookup(part))
             ELSE next_in_brackets_any_follower(rest, Append(part, chr))

\* the in_brackets branch of next(): it.chars is what is left to read
RECURSIVE next_in_brackets(_, _)
next_in_brackets(it, part) ==
    IF it.chars = <<>>
    THEN Yield(it, Invalid)
    ELSE LET chr == Head(it.chars)
             rest == [it EXCEPT !.chars = Tail(@)]
         IN  IF chr = "]"
             THEN IF part = <<>>
                  THEN Yield(rest, Invalid)
                  ELSE IF rest.chars # <<>> /\ Head(rest.chars) # "."
                  THEN Yield(rest, Invalid)
                  ELSE Yield([rest EXCEPT !.chars = IF @ = <<>> THEN @ ELSE Tail(@),
                                          !.in_brackets = FALSE],
                             IF parse_u32(part).some
                             THEN ListIndex(parse_u32(part).val)
                             ELSE MapLookup(part))
             ELSE next_in_brackets(rest, Append(part, chr))

\* the other branch of next(), with the tail of the function
RECURSIVE next_name(_, _)
next_name(it, part) ==
    IF it.chars = <<>>
    THEN Yield([it EXCEPT !.exhausted = TRUE],
               IF part = <<>> THEN NoElement ELSE Name(part))
    ELSE LET chr == Head(it.chars)
             rest == [it EXCEPT !.chars = Tail(@)]
         IN  CASE chr = "." -> Yield(rest, IF part = <<>> THEN Invalid ELSE Name(part))
               [] chr = "[" ->
                     IF part = <<>>
                     THEN next_in_brackets([rest EXCEPT !.in_brackets = TRUE], <<>>)
                     ELSE Yield([rest EXCEPT !.in_brackets = TRUE], Name(part))
               [] chr = "]" -> Yield(rest, Invalid)
               [] OTHER -> next_name(rest, Append(part, chr))

\* <NamedRefIter as Iterator>::next
NamedRefIter_next(it) ==
    IF it.exhausted THEN Yield(it, NoElement)
    ELSE IF it.in_brackets THEN next_in_brackets(it, <<>>)
    ELSE next_name(it, <<>>)

-----------------------------------------------------------------------------
(* builder/schema.rs: the ReferenceBuilder implementations *)

\* a builder is the struct of FullSchemaReferenceBuilder or
\* NamesOnlyReferenceBuilder (the two impls are the same code), or the
\* AlwaysFaillingReferenceBuilder
FullSchemaReferenceBuilder_new(sch) ==
    [kind |-> "Full", cur_children |-> sch.children, parts |-> <<>>, cur_path |-> <<>>]

NamesOnlyReferenceBuilder_new(sch) ==
    [kind |-> "Names", cur_children |-> sch.children, parts |-> <<>>, cur_path |-> <<>>]

AlwaysFaillingReferenceBuilder ==
    [kind |-> "AlwaysFailing", cur_children |-> <<>>, parts |-> <<>>, cur_path |-> <<>>]

\* Result<&mut dyn ReferenceBuilder>
OkBuilder(b) == [res |-> "Ok", builder |-> b]
ErrBuilder(kind, b) == [res |-> kind, builder |-> b]

\* Result<Expression>
OkExpr(e) == [res |-> "Ok", expr |-> e]
ErrExpr(kind) == [res |-> kind, expr |-> NoRexType]

\* a plausible slip: rposition instead of position
position_last(nodes, name) ==
    LET hits == {i \in 1..Len(nodes) : nodes[i].name = name} IN
    IF hits = {} THEN None
    ELSE Some((CHOOSE i \in hits : \A j \in hits : j <= i) - 1)

\* cur_children.iter().position(|child| child.name == name)
position(nodes, name) ==
    LET hits == {i \in 1..Len(nodes) : nodes[i].name = name} IN
    IF hits = {} THEN None
    ELSE Some((CHOOSE i \in hits : \A j \in hits : i <= j) - 1)

\* ReferenceBuilder::field
ReferenceBuilder_field(b, name) ==
    IF b.kind = "AlwaysFailing"
    THEN ErrBuilder("InvalidInput", b)
    ELSE LET field_index == position(b.cur_children, name) IN
         IF field_index.some
         THEN OkBuilder([b EXCEPT
                           !.cur_path = @ \o name,
                           !.cur_children = b.cur_children[field_index.val + 1].children,
                           !.parts = Append(@, StructField(field_index.val, None))])
         ELSE ErrBuilder("InvalidInput", b)

\* ReferenceBuilder::list_item
ReferenceBuilder_list_item(b, index) ==
    IF b.kind = "AlwaysFailing"
    THEN ErrBuilder("InvalidInput", b)
    ELSE OkBuilder([b EXCEPT !.parts = Append(@, ListElement(as_i32(index), None))])

\* ReferenceBuilder::map_item
ReferenceBuilder_map_item(b, key) ==
    IF b.kind = "AlwaysFailing"
    THEN ErrBuilder("InvalidInput", b)
    ELSE IF try_as_literal(key) # "Ok"
    THEN ErrBuilder(try_as_literal(key), b)
    ELSE OkBuilder([b EXCEPT !.parts = Append(@, MapKey(Some(key), None))])

\* a plausible slip: the fold runs without rev(), so every part becomes the
\* child of the part after it
RECURSIVE reduce_parts_forward(_)
reduce_parts_forward(parts) ==
    IF Len(parts) = 1
    THEN parts[1]
    ELSE [parts[Len(parts)] EXCEPT
            !.child = Some(reduce_parts_forward(SubSeq(parts, 1, Len(parts) - 1)))]

\* parts.iter().rev().cloned().reduce(..): every part becomes the child of
\* the part before it
RECURSIVE reduce_parts(_)
reduce_parts(parts) ==
    IF Len(parts) = 1
    THEN parts[1]
    ELSE [parts[1] EXCEPT !.child = Some(reduce_parts(Tail(parts)))]

\* ReferenceBuilder::build
ReferenceBuilder_build(b) ==
    IF b.kind = "AlwaysFailing" THEN ErrExpr("InvalidInput")
    ELSE IF b.parts = <<>> THEN ErrExpr("InvalidInput")
    ELSE OkExpr(RootReference(reduce_parts(b.parts)))

-----------------------------------------------------------------------------
(* builder/functions.rs and builder/schema.rs: RefBuilder *)

LOOKUP_BY_NAME_FUNC_URI == <<"https://substrait.io/functions">>
LOOKUP_BY_NAME_FUNC_NAME == <<"lookup_by_name">>

\* FunctionsBuilder::lookup_field_by_name: the placeholder expression, with
\* the two registries after the registrations it makes
lookup_field_by_name(functions, internal, name) ==
    LET f == FunctionRegistryInternal_register(functions, LOOKUP_BY_NAME_FUNC_URI,
                                               LOOKUP_BY_NAME_FUNC_NAME)
        u == unknown(internal)
    IN  [res |-> "Ok",
         expr |-> ScalarFunction(f.anchor, <<EnumArgument(name)>>, Some(u.typ), <<>>),
         functions |-> f.internal,
         registry |-> u.registry]

\* a plausible slip: the names-only builder is handed out whatever the params
field_builder_unchecked(sch, prm) ==
    CASE sch.variant = "Empty" -> ErrBuilder("panic", AlwaysFaillingReferenceBuilder)
      [] sch.variant = "Full" -> OkBuilder(FullSchemaReferenceBuilder_new(sch))
      [] sch.variant = "Names" -> OkBuilder(NamesOnlyReferenceBuilder_new(sch))
      [] sch.variant = "Types" -> ErrBuilder("panic", AlwaysFaillingReferenceBuilder)

\* RefBuilder::field_builder; todo!() unwinds
field_builder(sch, prm) ==
    CASE sch.variant = "Empty" -> ErrBuilder("panic", AlwaysFaillingReferenceBuilder)
      [] sch.variant = "Full" -> OkBuilder(FullSchemaReferenceBuilder_new(sch))
      [] sch.variant = "Names" ->
            IF prm.allow_unknown_types
            THEN OkBuilder(NamesOnlyReferenceBuilder_new(sch))
            ELSE OkBuilder(AlwaysFaillingReferenceBuilder)
      [] sch.variant = "Types" -> ErrBuilder("panic", AlwaysFaillingReferenceBuilder)

\* for path_part in NamedRefIter::new(name) { .. } builder.build()
RECURSIVE for_path_part(_, _)
for_path_part(builder, it) ==
    LET step(y) ==
            LET and_then(r) == IF r.res # "Ok"
                               THEN ErrExpr(r.res)
                               ELSE for_path_part(r.builder, y.iter)
            IN  CASE y.item.tag = "None" -> ReferenceBuilder_build(builder)
                  [] y.item.tag = "Err" -> ErrExpr(y.item.res)
                  [] y.item.tag = "Name" ->
                        With(ReferenceBuilder_field(builder, y.item.name), and_then)
                  [] y.item.tag = "ListIndex" ->
                        With(ReferenceBuilder_list_item(builder, y.item.index), and_then)
                  [] y.item.tag = "MapLookup" ->
                        With(ReferenceBuilder_map_item(builder,
                                                       literal("string", y.item.key)),
                             and_then)
    IN  With(NamedRefIter_next(it), step)

\* RefBuilder::resolve_by_name
resolve_by_name(sch, prm, functions, internal, name) ==
    LET untouched(r) == [res |-> r.res, expr |-> r.expr,
                         functions |-> functions, registry |-> internal]
    IN  CASE sch.variant \in {"Empty", "Types"} ->
                IF prm.allow_late_name_lookup
                THEN lookup_field_by_name(functions, internal, name)
                ELSE untouched(ErrExpr("InvalidInput"))
          [] sch.variant \in {"Names", "Full"} ->
                With(for_path_part(field_builder(sch, prm).builder,
                                   NamedRefIter_new(name)),
                     untouched)

-----------------------------------------------------------------------------
(* Path strings and schemas whose field names are sequences of characters *)

\* a path of the exhaustive part of Paths has at most MaxPathLen characters
MaxPathLen == 4

Alphabet == {"a", "3", "+", ".", "[", "]"}

\* the paths of the crate's tests and documentation, a signed index, and the
\* ends of the u32 range
SamplePaths ==
    { <<"a", ".", "c", "[", "3", "]">>,
      <<"a", "[", "3", "]", "b">>,
      <<"a", "[", "+", "3", "]">>,
      <<"a", "[", "h", "e", "l", "l", "o", "]", ".", "b">>,
      <<"x", "[", "3", "]", "[", "5", "]">>,
      <<"a", "a", ".", "a">>,
      <<"a", "a", ".", "3">>,
      <<"a", "a", ".", "+">>,
      <<"a", "a", ".", "a", "[", "3", "]">>,
      <<"a", "a", "[", "a", "]", ".", "3">>,
      <<"a", "[", "4", "2", "9", "4", "9", "6", "7", "2", "9", "5", "]">>,
      <<"a", "[", "4", "2", "9", "4", "9", "6", "7", "2", "9", "6", "]">> }

Paths == UNION {[1..n -> Alphabet] : n \in 0..MaxPathLen} \cup SamplePaths

\* a path handed to resolve_by_name has at most MaxRefLen characters, or is
\* one of the sample paths
MaxRefLen == 3

RefPaths == UNION {[1..n -> Alphabet] : n \in 0..MaxRefLen} \cup SamplePaths

InnerType == struct_(<<fp32(FALSE), fp64(TRUE), i64(FALSE)>>, FALSE)

\* {a: i32, aa: {3: fp32, a: fp64?, a: i64}, a: string}
ResolveFull ==
    FullSchema(<< FullSchemaNode(<<"a">>, i32(FALSE), <<>>),
                  FullSchemaNode(<<"a", "a">>, InnerType,
                                 << FullSchemaNode(<<"3">>, fp32(FALSE), <<>>),
                                    FullSchemaNode(<<"a">>, fp64(TRUE), <<>>),
                                    FullSchemaNode(<<"a">>, i64(FALSE), <<>>) >>),
                  FullSchemaNode(<<"a">>, string(FALSE), <<>>) >>)

ResolveNames ==
    NamesOnlySchema(<< NamesOnlySchemaNode(<<"a">>, <<>>),
                       NamesOnlySchemaNode(<<"a", "a">>,
                                           << NamesOnlySchemaNode(<<"3">>, <<>>),
                                              NamesOnlySchemaNode(<<"a">>, <<>>),
                                              NamesOnlySchemaNode(<<"a">>, <<>>) >>),
                       NamesOnlySchemaNode(<<"a">>, <<>>) >>)

ResolveTypes == TypesOnlySchema(<<i32(FALSE), InnerType, string(FALSE)>>)

ResolveSchemas == {EmptySchema, ResolveNames, ResolveTypes, ResolveFull}

AllParams == {BuilderParams(l, t, u) : l \in BOOLEAN, t \in BOOLEAN, u \in BOOLEAN}

\* one call on the builder returned by field_builder()
BuilderCalls ==
    {[call |-> "field", name |-> n] : n \in {<<"a">>, <<"a", "a">>, <<"3">>}}
    \cup {[call |-> "list_item", index |-> i] :
             i \in {U32(0, 3), U32(32767, 65535), U32(32768, 0), U32(65535, 65535)}}
    \cup {[call |-> "map_item", key |-> literal("string", <<"a">>)],
          [call |-> "map_item", key |-> NoRexType],
          [call |-> "build"]}

-----------------------------------------------------------------------------
(* The path parser as a state machine: one NamedRefIter driven by a for loop *)

InitParser ==
    /\ registry = DefaultRegistry
    /\ functionsRegistry = NewFunctionsRegistry
    /\ schema = EmptySchema
    /\ expressions = <<>>
    /\ message = NotBuilt
    /\ call = NoCall
    /\ lastOp = NoOp
    /\ firstType = EmptyMap
    /\ firstFunction = EmptyMap
    /\ accepted = <<>>
    /\ params = BuilderParams_default
    /\ iter \in {NamedRefIter_new(p) : p \in Paths}
    /\ elements = <<>>
    /\ threads = NoThreads
    /\ lock = Unlocked
    /\ returned = {}
    /\ builders = <<>>

\* a plausible slip: an error does not end the loop, the next element is asked for
Ended_on_none_only == elements # <<>> /\ elements[Len(elements)].tag = "None"

\* the loop has ended: next() returned None or the ? operator returned the error
Ended == elements # <<>> /\ elements[Len(elements)].tag \in {"None", "Err"}

\* one iteration of the loop: NamedRefIter::next
NextElement ==
    /\ ~Ended
    /\ \E y \in {NamedRefIter_next(iter)} :
        /\ iter' = y.iter
        /\ elements' = Append(elements, y.item)
        /\ lastOp' = [op |-> "next", before |-> iter]
        /\ UNCHANGED <<builders, threads, lock, returned, registry, functionsRegistry, schema, expressions, message, call,
                       firstType, firstFunction, accepted, params>>

SpecParser == InitParser /\ [][NextElement]_vars

\* the for loop of resolve_by_name is straight-line code: while it has not
\* ended its next iteration is taken; run on the paths of up to MaxPathLen
\* characters
InitParserFair == InitParser /\ Len(iter.val) <= MaxPathLen

SpecParserFair == InitParserFair /\ [][NextElement]_vars /\ WF_vars(NextElement)

-----------------------------------------------------------------------------
(* Field references as a state machine: one RefBuilder over one schema *)

InitResolve ==
    /\ registry = DefaultRegistry
    /\ functionsRegistry = NewFunctionsRegistry
    /\ schema \in ResolveSchemas
    /\ expressions = <<>>
    /\ message = NotBuilt
    /\ call = NoCall
    /\ lastOp = NoOp
    /\ firstType = EmptyMap
    /\ firstFunction = EmptyMap
    /\ accepted = <<>>
    /\ params \in AllParams
    /\ iter = NoIter
    /\ elements = <<>>
    /\ threads = NoThreads
    /\ lock = Unlocked
    /\ returned = {}
    /\ builders = <<>>

\* the RefBuilder returned by ExpressionsBuilder::fields() is used for one call
Referenced == lastOp.op \in {"resolve_by_name", "field_builder"}

\* RefBuilder::resolve_by_name
ResolveByName(name) ==
    /\ ~Referenced
    /\ \E r \in {resolve_by_name(schema, params, functionsRegistry, registry, name)} :
        /\ functionsRegistry' = r.functions
        /\ registry' = r.registry
        /\ lastOp' = [op |-> "resolve_by_name", name |-> name, res |-> r.res,
                      expr |-> r.expr]
        /\ UNCHANGED <<builders, threads, lock, returned, schema, expressions, message, call, firstType, firstFunction,
                       accepted, params, iter, elements>>

\* one call of a ReferenceBuilder method on a builder with the given steps made
ApplyCall(b, c) ==
    CASE c.call = "field" -> ReferenceBuilder_field(b, c.name)
      [] c.call = "list_item" -> ReferenceBuilder_list_item(b, c.index)
      [] c.call = "map_item" -> ReferenceBuilder_map_item(b, c.key)
      [] c.call = "build" ->
            ErrBuilder(ReferenceBuilder_build(b).res, b)

\* RefBuilder::field_builder() followed by one call on the builder
FieldBuilder(c) ==
    /\ ~Referenced
    /\ \E fb \in {field_builder(schema, params)} :
       \E r \in {IF fb.res = "Ok" THEN ApplyCall(fb.builder, c) ELSE fb} :
        /\ lastOp' = [op |-> "field_builder", call |-> c, res |-> r.res,
                      parts |-> r.builder.parts]
        /\ UNCHANGED <<builders, threads, lock, returned, registry, functionsRegistry, schema, expressions, message, call,
                       firstType, firstFunction, accepted, params, iter, elements>>

NextResolve ==
    \/ Unknown
    \/ \E p \in RefPaths : ResolveByName(p)
    \/ \E c \in BuilderCalls : FieldBuilder(c)

SpecResolve == InitResolve /\ [][NextResolve]_vars

-----------------------------------------------------------------------------
(* Claims about field references, checked under SpecResolve *)

\* the deferred-lookup placeholder for a name: a scalar function with one
\* Enum argument holding the name and the unknown type as output type
IsPlaceholder(expr, name) ==
    /\ expr.rex_type = "scalar_function"
    /\ expr.arguments = <<EnumArgument(name)>>
    /\ expr.output_type.some
    /\ is_unknown(expr.output_type.val, registry)

\* C11: resolve_by_name on an Empty or TypesOnly schema returns the
\* placeholder (one Enum argument with the raw name, output type unknown) when
\* allow_late_name_lookup is set and InvalidInput otherwise; on a NamesOnly
\* schema without allow_unknown_types it returns an error, as does every call
\* on field_builder(); on a Full schema the outcome depends on no parameter.
C11_ResolveByNameFollowsPermissionTable ==
    /\ (lastOp.op = "resolve_by_name" /\ schema.variant \in {"Empty", "Types"})
         => IF params.allow_late_name_lookup
            THEN lastOp.res = "Ok" /\ IsPlaceholder(lastOp.expr, lastOp.name)
            ELSE lastOp.res = "InvalidInput"
    /\ (/\ lastOp.op \in {"resolve_by_name", "field_builder"}
        /\ schema.variant = "Names"
        /\ ~params.allow_unknown_types)
         => lastOp.res = "InvalidInput"
    /\ (lastOp.op = "resolve_by_name" /\ schema.variant = "Full")
         => \A q \in AllParams :
               LET r == resolve_by_name(schema, q, functionsRegistry, registry,
                                        lastOp.name)
               IN  r.res = lastOp.res /\ r.expr = lastOp.expr

\* "a.c[3]" is looked up late on a types-only schema
C11_Witness ==
    /\ lastOp.op = "resolve_by_name"
    /\ schema.variant = "Types"
    /\ params.allow_late_name_lookup
    /\ ~params.allow_unknown_types
    /\ lastOp.name = <<"a", ".", "c", "[", "3", "]">>
    /\ lastOp.res = "Ok"
    /\ lastOp.expr.arguments[1].enum = <<"a", ".", "c", "[", "3", "]">>

\* the items a for loop over the iterator sees, the closing None or Err included
RECURSIVE path_elements(_)
path_elements(it) ==
    LET rest(y) == IF y.item.tag \in {"None", "Err"}
                   THEN <<y.item>>
                   ELSE <<y.item>> \o path_elements(y.iter)
    IN  With(NamedRefIter_next(it), rest)

\* the positions a chain of steps must select: each Name takes the first
\* child of that name below the field matched before it; missing is TRUE when
\* some Name has no such child
RECURSIVE FirstChildWalk(_, _)
FirstChildWalk(nodes, steps) ==
    IF steps = <<>> THEN [missing |-> FALSE, indices |-> <<>>]
    ELSE IF Head(steps).tag # "Name" THEN FirstChildWalk(nodes, Tail(steps))
    ELSE IF \A i \in 1..Len(nodes) : nodes[i].name # Head(steps).name
    THEN [missing |-> TRUE, indices |-> <<>>]
    ELSE LET k == CHOOSE i \in 1..Len(nodes) :
                      /\ nodes[i].name = Head(steps).name
                      /\ \A j \in 1..(i - 1) : nodes[j].name # Head(steps).name
             below == FirstChildWalk(nodes[k].children, Tail(steps))
         IN  [missing |-> below.missing, indices |-> <<k - 1>> \o below.indices]

\* the struct-field positions of a reference segment, outermost first
RECURSIVE FieldIndices(_)
FieldIndices(seg) ==
    (IF seg.reference_type = "struct_field" THEN <<seg.field>> ELSE <<>>)
    \o (IF seg.child.some THEN FieldIndices(seg.child.val) ELSE <<>>)

NamesKnown ==
    \/ schema.variant = "Full"
    \/ schema.variant = "Names" /\ params.allow_unknown_types

\* C12: on a Full schema, or a NamesOnly schema with unknown types allowed,
\* every Name step resolves to the position of the first child with that name
\* among the children of the previously matched field (the root's children
\* for the first step), and field() / resolve_by_name return InvalidInput
\* when no child at the cursor has that name.
C12_NameStepTakesFirstChildOfThatName ==
    /\ (/\ lastOp.op = "resolve_by_name"
        /\ NamesKnown
        /\ Len(path_elements(NamedRefIter_new(lastOp.name))) > 1
        /\ path_elements(NamedRefIter_new(lastOp.name))
             [Len(path_elements(NamedRefIter_new(lastOp.name)))].tag = "None")
         => LET w == FirstChildWalk(schema.children,
                                    path_elements(NamedRefIter_new(lastOp.name)))
            IN  IF w.missing
                THEN lastOp.res = "InvalidInput"
                ELSE /\ lastOp.res = "Ok"
                     /\ FieldIndices(lastOp.expr.direct_reference) = w.indices
    /\ (lastOp.op = "field_builder" /\ NamesKnown /\ lastOp.call.call = "field")
         => LET w == FirstChildWalk(schema.children, <<Name(lastOp.call.name)>>)
            IN  IF w.missing
                THEN lastOp.res = "InvalidInput"
                ELSE /\ lastOp.res = "Ok"
                     /\ lastOp.parts = <<StructField(w.indices[1], None)>>

\* "aa.a" on the full schema: aa is the second root field and its first child
\* named a is its second child, although its third child is named a too
C12_Witness ==
    /\ lastOp.op = "resolve_by_name"
    /\ schema = ResolveFull
    /\ lastOp.name = <<"a", "a", ".", "a">>
    /\ lastOp.res = "Ok"
    /\ lastOp.expr.direct_reference = StructField(1, Some(StructField(1, None)))

\* the builder after the calls a sequence of parsed elements stands for, made
\* one after the other; the first failing call ends the sequence
RECURSIVE BuilderAfter(_, _)
BuilderAfter(b, els) ==
    IF els = <<>> \/ Head(els).tag = "None" THEN OkBuilder(b)
    ELSE LET r == CASE Head(els).tag = "Name" ->
                          ReferenceBuilder_field(b, Head(els).name)
                    [] Head(els).tag = "ListIndex" ->
                          ReferenceBuilder_list_item(b, Head(els).index)
                    [] Head(els).tag = "MapLookup" ->
                          ReferenceBuilder_map_item(b, literal("string", Head(els).key))
         IN  IF r.res # "Ok" THEN r ELSE BuilderAfter(r.builder, Tail(els))

\* the steps of a nested reference, outermost first, each without its child
RECURSIVE Unnest(_)
Unnest(seg) ==
    <<[seg EXCEPT !.child = None]>>
    \o (IF seg.child.some THEN Unnest(seg.child.val) ELSE <<>>)

ParsedPath(name) ==
    path_elements(NamedRefIter_new(name))[Len(path_elements(NamedRefIter_new(name)))].tag
        = "None"

\* C24: on a NamesOnly or Full schema resolve_by_name(path) returns what
\* field(n) / list_item(i) / map_item(literal(k)) for the path's elements in
\* parse order, made on a fresh field_builder and followed by build(), return:
\* a direct root reference that nests the steps in that order, the first step
\* outermost and the last step without child; a reference without steps is an
\* InvalidInput error.
C24_ResolveByNameIsTheBuilderCallsInParseOrder ==
    /\ (/\ lastOp.op = "resolve_by_name"
        /\ schema.variant \in {"Names", "Full"}
        /\ ParsedPath(lastOp.name))
         => LET r == BuilderAfter(field_builder(schema, params).builder,
                                  path_elements(NamedRefIter_new(lastOp.name)))
            IN  IF r.res # "Ok" THEN lastOp.res = r.res
                ELSE IF r.builder.parts = <<>> THEN lastOp.res = "InvalidInput"
                ELSE /\ lastOp.res = "Ok"
                     /\ lastOp.expr.rex_type = "selection"
                     /\ lastOp.expr.root_type = "root_reference"
                     /\ lastOp.expr.reference_type = "direct_reference"
                     /\ Unnest(lastOp.expr.direct_reference) = r.builder.parts
    /\ (/\ lastOp.op = "field_builder"
        /\ schema.variant \in {"Names", "Full"}
        /\ lastOp.call.call = "build")
         => lastOp.res = "InvalidInput"

\* "aa.a[3]" on the full schema: field 1, below it field 1, below it the
\* list element 3, which has no child
C24_Witness ==
    /\ lastOp.op = "resolve_by_name"
    /\ schema = ResolveFull
    /\ lastOp.name = <<"a", "a", ".", "a", "[", "3", "]">>
    /\ lastOp.res = "Ok"
    /\ lastOp.expr.direct_reference
         = StructField(1, Some(StructField(1, Some(ListElement(3, None)))))

-----------------------------------------------------------------------------
(* Claims about the path parser, checked under SpecParser *)

\* The documented grammar, path = segment ('.' segment | '[' token ']')*,
\* read directly: a segment and a token are non-empty runs of characters
\* other than '.', '[' and ']'; an all-digit token is a list index, any other
\* token a map-lookup key.
Special == {".", "[", "]"}

RECURSIVE PlainPrefixLen(_)
PlainPrefixLen(s) ==
    IF s = <<>> \/ Head(s) \in Special THEN 0 ELSE 1 + PlainPrefixLen(Tail(s))

Drop(s, n) == SubSeq(s, n + 1, Len(s))

AllDigits(token) == \A i \in 1..Len(token) : IsDigit(token[i])

\* an all-digit token is taken as an index only when its value is a u32
TokenInGrammar(token) == AllDigits(token) => from_digits(token, U32(0, 0)).some

TokenElement(token) ==
    IF AllDigits(token)
    THEN ListIndex(from_digits(token, U32(0, 0)).val)
    ELSE MapLookup(token)

GrammarCons(element, tail) == [ok |-> tail.ok, elements |-> <<element>> \o tail.elements]

RECURSIVE GrammarTail(_)
GrammarTail(s) ==
    IF s = <<>> THEN [ok |-> TRUE, elements |-> <<>>]
    ELSE LET n == PlainPrefixLen(Tail(s))
             word == SubSeq(s, 2, n + 1)
         IN  CASE Head(s) = "." /\ n > 0 ->
                     GrammarCons(Name(word), GrammarTail(Drop(s, n + 1)))
               [] /\ Head(s) = "["
                  /\ n > 0
                  /\ Len(s) >= n + 2
                  /\ s[n + 2] = "]"
                  /\ TokenInGrammar(word) ->
                     GrammarCons(TokenElement(word), GrammarTail(Drop(s, n + 2)))
               [] OTHER -> [ok |-> FALSE, elements |-> <<>>]

GrammarPath(s) ==
    LET n == PlainPrefixLen(s) IN
    IF n = 0
    THEN [ok |-> FALSE, elements |-> <<>>]
    ELSE GrammarCons(Name(SubSeq(s, 1, n)), GrammarTail(Drop(s, n)))

LastElement == elements[Len(elements)]

\* C13 (as claimed): for every path accepted by the grammar the parser yields
\* the path's elements in order: one Name per dot-separated segment, and per
\* bracket group a ListIndex when the token is all digits and a MapLookup with
\* the token text otherwise.
C13_ParserYieldsTheElementsOfThePath ==
    (Ended /\ GrammarPath(iter.val).ok)
        => elements = GrammarPath(iter.val).elements \o <<NoElement>>

\* the bracket character nearest before position i, or "none"
LastBracketBefore(p, i) ==
    LET at == {j \in 1..(i - 1) : p[j] \in {"[", "]"}} IN
    IF at = {} THEN "none" ELSE p[CHOOSE j \in at : \A k \in at : k <= j]

\* position i holds a '[' that opens a bracket group / a ']' that closes one
Opens(p, i) == p[i] = "[" /\ LastBracketBefore(p, i) # "["
Closes(p, i) == p[i] = "]" /\ LastBracketBefore(p, i) = "["

\* a dot outside brackets with nothing between it and the start, the end or
\* the next dot
EmptySegment(p) ==
    \E i \in 1..Len(p) :
        /\ p[i] = "."
        /\ LastBracketBefore(p, i) # "["
        /\ (i = 1 \/ i = Len(p) \/ p[i + 1] = ".")

\* C14 (as claimed): the parser reports an error for every path that contains
\* an empty dot-separated segment: a leading dot, a trailing dot or a doubled
\* dot.
C14_EmptySegmentIsAnError ==
    (Ended /\ EmptySegment(iter.val)) => LastElement.tag = "Err"

EmptyBrackets(p) == \E i \in 1..(Len(p) - 1) : Opens(p, i) /\ p[i + 1] = "]"
Unterminated(p) == \E i \in 1..Len(p) : Opens(p, i) /\ \A j \in (i + 1)..Len(p) : p[j] # "]"
BadFollower(p) == \E i \in 1..(Len(p) - 1) : Closes(p, i) /\ p[i + 1] # "."

\* C15: the parser reports an error for empty brackets, for a bracket that is
\* never closed, and whenever the character right after a closing ']' is
\* anything other than '.' or the end of the input.
C15_BracketDefectIsAnError ==
    (Ended /\ (EmptyBrackets(iter.val) \/ Unterminated(iter.val) \/ BadFollower(iter.val)))
        => LastElement.tag = "Err"

\* "a[3]b": the index is read and the b after the ] is refused
C15_Witness ==
    /\ Ended
    /\ iter.val = <<"a", "[", "3", "]", "b">>
    /\ elements = <<Name(<<"a">>), Invalid>>
    /\ iter.chars = <<"b">>

\* C16 (as claimed): consecutive bracket groups are accepted: a path of the
\* grammar in which a '[' directly follows a ']', such as "x[3][5]", parses
\* to its elements without error.
C16_ConsecutiveBracketGroupsAreAccepted ==
    (/\ Ended
     /\ GrammarPath(iter.val).ok
     /\ \E i \in 1..(Len(iter.val) - 1) : iter.val[i] = "]" /\ iter.val[i + 1] = "[")
        => /\ LastElement.tag = "None"
           /\ \A k \in 1..(Len(elements) - 1) : elements[k].tag \in {"Name", "ListIndex", "MapLookup"}


\* C28: resolving a path terminates: every element the iterator yields has
\* consumed at least one character, a None marks the iterator exhausted, the
\* loop stops at the first error, so at most len(path) + 1 items are examined
\* and the loop ends.
C28_PathResolutionTerminates ==
    /\ [](Len(elements) <= Len(iter.val) + 1)
    /\ [][elements' # elements
            => /\ elements'[Len(elements')].tag \in {"Name", "ListIndex", "MapLookup"}
                    => Len(iter'.chars) < Len(iter.chars)
               /\ elements'[Len(elements')].tag = "None" => iter'.exhausted]_vars
    /\ <>Ended

\* "a[": the name is yielded, the unterminated bracket is the error that ends
\* the loop, and no further item is asked for
C28_Witness ==
    /\ Ended
    /\ iter.val = <<"a", "[">>
    /\ elements = <<Name(<<"a">>), Invalid>>
    /\ ~iter.exhausted

-----------------------------------------------------------------------------
(* helpers/schema.rs: the awareness predicates and the DFS traversals *)

\* a plausible slip: every variant is taken to know its length
len_aware_always(sch) == sch.variant \in {"Empty", "Names", "Types", "Full"}

names_aware(sch) == sch.variant \in {"Names", "Full"}
types_aware(sch) == sch.variant \in {"Types", "Full"}
len_aware(sch) == sch.variant \in {"Names", "Types", "Full"}

\* iter().rev()
Reverse(s) == [i \in 1..Len(s) |-> s[Len(s) + 1 - i]]

\* Vec::pop takes the last element of the stack
Top(stack) == stack[Len(stack)]
Popped(stack) == SubSeq(stack, 1, Len(stack) - 1)

\* NamesOnlySchemaNodeNamesDfsIter, run until next() returns None
RECURSIVE NamesOnlySchemaNodeNamesDfsIter(_)
NamesOnlySchemaNodeNamesDfsIter(stack) ==
    IF stack = <<>> THEN <<>>
    ELSE <<Top(stack).name>>
         \o NamesOnlySchemaNodeNamesDfsIter(Popped(stack) \o Reverse(Top(stack).children))

\* a plausible slip: the children are pushed in declaration order
RECURSIVE FullSchemaFieldsDfsIter_children_forward(_, _)
FullSchemaFieldsDfsIter_children_forward(stack, include_inner) ==
    IF stack = <<>> THEN <<>>
    ELSE (IF include_inner \/ Top(stack).children = <<>> THEN <<Top(stack)>> ELSE <<>>)
         \o FullSchemaFieldsDfsIter_children_forward(Popped(stack) \o Top(stack).children,
                                                     include_inner)

\* FullSchemaFieldsDfsIter, run until next() returns None
RECURSIVE FullSchemaFieldsDfsIter(_, _)
FullSchemaFieldsDfsIter(stack, include_inner) ==
    IF stack = <<>> THEN <<>>
    ELSE (IF include_inner \/ Top(stack).children = <<>> THEN <<Top(stack)>> ELSE <<>>)
         \o FullSchemaFieldsDfsIter(Popped(stack) \o Reverse(Top(stack).children),
                                    include_inner)

\* TypesOnlySchemaTypesDfsIter, run until next() returns None
RECURSIVE TypesOnlySchemaTypesDfsIter(_, _)
TypesOnlySchemaTypesDfsIter(stack, include_inner) ==
    IF stack = <<>> THEN <<>>
    ELSE (IF include_inner \/ children(Top(stack)) = <<>> THEN <<Top(stack)>> ELSE <<>>)
         \o TypesOnlySchemaTypesDfsIter(Popped(stack) \o Reverse(children(Top(stack))),
                                        include_inner)

\* NamesOnlySchemaNode::as_type
RECURSIVE as_type(_, _)
as_type(node, unknown_type) ==
    IF node.children = <<>>
    THEN unknown_type
    ELSE struct_([i \in 1..Len(node.children) |-> as_type(node.children[i], unknown_type)],
                 TRUE)

\* SchemaInfo::names_dfs, collected
names_dfs(sch) ==
    CASE sch.variant \in {"Empty", "Types"} -> [res |-> "InvalidInput", names |-> <<>>]
      [] sch.variant = "Names" ->
            [res |-> "Ok", names |-> NamesOnlySchemaNodeNamesDfsIter(sch.children)]
      [] sch.variant = "Full" ->
            [res |-> "Ok",
             names |-> LET nodes == FullSchemaFieldsDfsIter(Reverse(sch.children), TRUE)
                       IN  [i \in 1..Len(nodes) |-> nodes[i].name]]

\* SchemaInfo::types_dfs, collected; the names-only arm registers the unknown
\* type
types_dfs(sch, include_inner, internal) ==
    CASE sch.variant = "Empty" -> [types |-> <<>>, registry |-> internal]
      [] sch.variant = "Names" ->
            LET of_unknown(u) ==
                    [types |-> [i \in 1..Len(sch.children) |->
                                   as_type(sch.children[i], u.typ)],
                     registry |-> u.registry]
            IN  With(unknown(internal), of_unknown)
      [] sch.variant = "Types" ->
            [types |-> TypesOnlySchemaTypesDfsIter(Reverse(sch.types), include_inner),
             registry |-> internal]
      [] sch.variant = "Full" ->
            [types |-> LET nodes == FullSchemaFieldsDfsIter(Reverse(sch.children),
                                                            include_inner)
                       IN  [i \in 1..Len(nodes) |-> nodes[i].type],
             registry |-> internal]

-----------------------------------------------------------------------------
(* Schemas as the schema builders make them *)

\* a struct has at most MaxFields fields
MaxFields == 2

SeqsUpTo(S, n) == UNION {[1..k -> S] : k \in 0..n}

\* FullSchemaBuilder::nested: the struct type is made of the children's types
FullSchemaBuilder_nested(name, nullable, node_children) ==
    FullSchemaNode(name,
                   struct_([i \in 1..Len(node_children) |-> node_children[i].type],
                           nullable),
                   node_children)

LeafNodes == {FullSchemaNode(<<"a">>, i32(FALSE), <<>>),
              FullSchemaNode(<<"b">>, fp64(TRUE), <<>>)}

NestedNodes == {FullSchemaBuilder_nested(<<"c">>, FALSE, cs) : cs \in SeqsUpTo(LeafNodes, MaxFields)}

\* {a: i32, c: {b: fp64?, c: {a: i32, b: fp64?}}, b: fp64?}
DeepFull ==
    FullSchema(<< FullSchemaNode(<<"a">>, i32(FALSE), <<>>),
                  FullSchemaBuilder_nested(<<"c">>, FALSE,
                      << FullSchemaNode(<<"b">>, fp64(TRUE), <<>>),
                         FullSchemaBuilder_nested(<<"c">>, TRUE,
                             << FullSchemaNode(<<"a">>, i32(FALSE), <<>>),
                                FullSchemaNode(<<"b">>, fp64(TRUE), <<>>) >>) >>),
                  FullSchemaNode(<<"b">>, fp64(TRUE), <<>>) >>)

\* {score: i32, location: {x: fp32, y: fp64?}}, the names spelled out
ExampleFull ==
    FullSchema(<< FullSchemaNode(<<"s", "c", "o", "r", "e">>, i32(FALSE), <<>>),
                  FullSchemaBuilder_nested(<<"l", "o", "c", "a", "t", "i", "o", "n">>, FALSE,
                      << FullSchemaNode(<<"x">>, fp32(FALSE), <<>>),
                         FullSchemaNode(<<"y">>, fp64(TRUE), <<>>) >>) >>)

FullSchemas ==
    {FullSchema(cs) : cs \in SeqsUpTo(LeafNodes \cup NestedNodes, MaxFields)}
    \cup {DeepFull, ExampleFull}

\* the same fields declared to a NamesOnlySchemaNodeBuilder
RECURSIVE NamesOfNodes(_)
NamesOfNodes(nodes) ==
    [i \in 1..Len(nodes) |-> NamesOnlySchemaNode(nodes[i].name,
                                                 NamesOfNodes(nodes[i].children))]

\* the same fields declared to a TypesOnlySchemaBuilder
TypesOfNodes(nodes) == [i \in 1..Len(nodes) |-> nodes[i].type]

BuiltSchemas ==
    {EmptySchema}
    \cup FullSchemas
    \cup {NamesOnlySchema(NamesOfNodes(s.children)) : s \in FullSchemas}
    \cup {TypesOnlySchema(TypesOfNodes(s.children)) : s \in FullSchemas}

-----------------------------------------------------------------------------
(* Reading a schema: one SchemaInfo and the read-only calls on it *)

InitSchema ==
    /\ registry = DefaultRegistry
    /\ functionsRegistry = NewFunctionsRegistry
    /\ schema \in BuiltSchemas
    /\ expressions = <<>>
    /\ message = NotBuilt
    /\ call = NoCall
    /\ lastOp = NoOp
    /\ firstType = EmptyMap
    /\ firstFunction = EmptyMap
    /\ accepted = <<>>
    /\ params = BuilderParams_default
    /\ iter = NoIter
    /\ elements = <<>>
    /\ threads = NoThreads
    /\ lock = Unlocked
    /\ returned = {}
    /\ builders = <<>>

\* names_aware(), types_aware() and len_aware()
Aware ==
    /\ lastOp' = [op |-> "aware", names_aware |-> names_aware(schema),
                  types_aware |-> types_aware(schema), len_aware |-> len_aware(schema)]
    /\ UNCHANGED <<builders, threads, lock, returned, registry, functionsRegistry, schema, expressions, message, call,
                   firstType, firstFunction, accepted, params, iter, elements>>

\* names_dfs(), collected into a Vec
NamesDfs ==
    /\ lastOp' = [op |-> "names_dfs", res |-> names_dfs(schema).res,
                  names |-> names_dfs(schema).names]
    /\ UNCHANGED <<builders, threads, lock, returned, registry, functionsRegistry, schema, expressions, message, call,
                   firstType, firstFunction, accepted, params, iter, elements>>

\* types_dfs(include_inner), collected into a Vec
TypesDfs(include_inner) ==
    \E r \in {types_dfs(schema, include_inner, registry)} :
        /\ registry' = r.registry
        /\ lastOp' = [op |-> "types_dfs", include_inner |-> include_inner,
                      types |-> r.types]
        /\ UNCHANGED <<builders, threads, lock, returned, functionsRegistry, schema, expressions, message, call,
                       firstType, firstFunction, accepted, params, iter, elements>>

\* format!("{}", idx) for a usize
RECURSIVE to_string(_)
to_string(n) ==
    IF n < 10 THEN <<Digits[n + 1]>>
    ELSE to_string(n \div 10) \o <<Digits[(n % 10) + 1]>>

\* SchemaInfo::to_substrait: the NamedStruct and the registry after the call
SchemaInfo_to_substrait(sch, internal) ==
    LET named_struct(t) ==
            [names |-> IF names_aware(sch)
                       THEN names_dfs(sch).names
                       ELSE [idx \in 1..Len(t.types) |->
                                <<"f", "i", "e", "l", "d", "_">> \o to_string(idx - 1)],
             struct |-> struct_(t.types, FALSE),
             registry |-> t.registry]
    IN  With(types_dfs(sch, FALSE, internal), named_struct)

\* schema.to_substrait()
SchemaToSubstrait ==
    \E r \in {SchemaInfo_to_substrait(schema, registry)} :
        /\ registry' = r.registry
        /\ lastOp' = [op |-> "schema_to_substrait", names |-> r.names,
                      struct |-> r.struct]
        /\ UNCHANGED <<functionsRegistry, schema, expressions, message, call,
                       firstType, firstFunction, accepted, params, iter, elements,
                       threads, lock, returned, builders>>

NextSchema ==
    \/ Aware
    \/ NamesDfs
    \/ \E b \in BOOLEAN : TypesDfs(b)
    \/ SchemaToSubstrait

SpecSchema == InitSchema /\ [][NextSchema]_vars

-----------------------------------------------------------------------------
(* Claims about reading a schema, checked under SpecSchema *)

\* pre-order over a forest of schema nodes: a node, then its children's
\* subtrees, then the siblings that were declared after it
RECURSIVE PreOrderNames(_)
PreOrderNames(nodes) ==
    IF nodes = <<>> THEN <<>>
    ELSE <<Head(nodes).name>> \o PreOrderNames(Head(nodes).children)
                              \o PreOrderNames(Tail(nodes))

\* C17 (as claimed): for every names-aware schema (NamesOnly and Full)
\* names_dfs yields every field name exactly once in pre-order, a parent
\* before its children and siblings in declaration order; for Empty and
\* TypesOnly it returns an error.
C17_NamesDfsIsPreOrder ==
    lastOp.op = "names_dfs"
        => IF schema.variant \in {"Names", "Full"}
           THEN lastOp.res = "Ok" /\ lastOp.names = PreOrderNames(schema.children)
           ELSE lastOp.res # "Ok"

\* pre-order over a forest of types; without include_inner only the types
\* that have no children are kept
RECURSIVE PreOrderTypes(_, _)
PreOrderTypes(types, include_inner) ==
    IF types = <<>> THEN <<>>
    ELSE (IF include_inner \/ children(Head(types)) = <<>> THEN <<Head(types)>> ELSE <<>>)
         \o PreOrderTypes(children(Head(types)), include_inner)
         \o PreOrderTypes(Tail(types), include_inner)

RootTypes(sch) == IF sch.variant = "Full" THEN TypesOfNodes(sch.children) ELSE sch.types

\* C18: for TypesOnly and Full schemas types_dfs(true) yields every type node
\* in pre-order, struct wrappers included, and types_dfs(false) yields exactly
\* the leaf types in the same relative order; an Empty schema yields nothing.
C18_TypesDfsIsPreOrder ==
    lastOp.op = "types_dfs"
        => /\ schema.variant \in {"Types", "Full"}
                => lastOp.types = PreOrderTypes(RootTypes(schema), lastOp.include_inner)
           /\ schema.variant = "Empty" => lastOp.types = <<>>

\* the leaf types of {score: i32, location: {x: fp32, y: fp64?}}
C18_Witness ==
    /\ lastOp.op = "types_dfs"
    /\ ~lastOp.include_inner
    /\ schema = ExampleFull
    /\ lastOp.types = <<i32(FALSE), fp32(FALSE), fp64(TRUE)>>

\* C19: the (names_aware, types_aware, len_aware) triple is (F,F,F) for
\* Empty, (T,F,T) for NamesOnly, (F,T,T) for TypesOnly and (T,T,T) for Full.
C19_AwarenessTable ==
    lastOp.op = "aware"
        => <<lastOp.names_aware, lastOp.types_aware, lastOp.len_aware>>
             = CASE schema.variant = "Empty" -> <<FALSE, FALSE, FALSE>>
                 [] schema.variant = "Names" -> <<TRUE, FALSE, TRUE>>
                 [] schema.variant = "Types" -> <<FALSE, TRUE, TRUE>>
                 [] schema.variant = "Full" -> <<TRUE, TRUE, TRUE>>

\* the three predicates have been read on an Empty schema
C19_Witness ==
    /\ lastOp.op = "aware"
    /\ schema = EmptySchema
    /\ ~lastOp.names_aware /\ ~lastOp.types_aware /\ ~lastOp.len_aware

-----------------------------------------------------------------------------
(* A claim about the serialized registry, checked under SpecRegistry *)

\* the declarations of one kind that carry the anchor and name of a pair and
\* whose URI reference is the anchor of the pair's URI in the URI list
DeclarationsOf(ret, mapping_type, pair, anchor) ==
    {i \in 1..Len(ret.extensions) :
        /\ ret.extensions[i].mapping_type = mapping_type
        /\ ret.extensions[i].anchor = anchor
        /\ ret.extensions[i].name = pair.name
        /\ \E u \in 1..Len(ret.uris) :
              /\ ret.uris[u].uri = pair.uri
              /\ ret.uris[u].extension_uri_anchor
                   = ret.extensions[i].extension_uri_reference}

DeclarationsOfKind(ret, mapping_type) ==
    {i \in 1..Len(ret.extensions) : ret.extensions[i].mapping_type = mapping_type}

\* C20 (as claimed): to_substrait emits exactly one declaration per
\* registered type and one per registered function, each with the anchor and
\* name it was registered with; every distinct URI appears exactly once in
\* the URI list with its own anchor, and every declaration's URI reference is
\* the anchor of that declaration's URI in the list.
C20_OneDeclarationPerRegisteredPair ==
    lastOp.op = "to_substrait"
        => /\ \A p \in DOMAIN firstType :
                 Cardinality(DeclarationsOf(lastOp.ret, "extension_type", p,
                                            firstType[p])) = 1
           /\ \A p \in DOMAIN firstFunction :
                 Cardinality(DeclarationsOf(lastOp.ret, "extension_function", p,
                                            firstFunction[p])) = 1
           /\ Cardinality(DeclarationsOfKind(lastOp.ret, "extension_type"))
                = Cardinality(DOMAIN firstType)
           /\ Cardinality(DeclarationsOfKind(lastOp.ret, "extension_function"))
                = Cardinality(DOMAIN firstFunction)
           /\ \A p \in (DOMAIN firstType) \cup (DOMAIN firstFunction) :
                 Cardinality({u \in 1..Len(lastOp.ret.uris) :
                                 lastOp.ret.uris[u].uri = p.uri}) = 1
           /\ \A u, v \in 1..Len(lastOp.ret.uris) :
                 u # v => lastOp.ret.uris[u].extension_uri_anchor
                            # lastOp.ret.uris[v].extension_uri_anchor

-----------------------------------------------------------------------------
(* Resolving references against a schema: resolve_type and output_type *)

\* a reference has at most MaxSteps steps
MaxSteps == 3

\* struct-field positions tried at every step: one negative, the positions of
\* a struct of MaxFields fields, and one past them
FieldPositions == (0 - 1)..MaxFields

\* the steps that can stand above a given child
Steps(child) ==
    {StructField(i, child) : i \in FieldPositions}
    \cup {ListElement(0, child), MapKey(literal("string", "k"), child)}

\* the references of exactly n steps
RECURSIVE SegmentsOf(_)
SegmentsOf(n) ==
    IF n = 1 THEN Steps(None)
    ELSE UNION {Steps(Some(s)) : s \in SegmentsOf(n - 1)}

Segments == UNION {SegmentsOf(n) : n \in 1..MaxSteps} \cup {NoReferenceType}

\* field references rooted at the schema, at an expression and at an outer
\* query
RootedExprs ==
    UNION {{RootReference(s),
            Selection("expression", "direct_reference", s),
            Selection("outer_reference", "direct_reference", s)} :
              s \in SegmentsOf(1) \cup SegmentsOf(2)}

TypedSchemas ==
    {DeepFull, ExampleFull,
     TypesOnlySchema(TypesOfNodes(DeepFull.children)),
     TypesOnlySchema(TypesOfNodes(ExampleFull.children)),
     NamesOnlySchema(NamesOfNodes(ExampleFull.children)),
     EmptySchema}

InitResolveType ==
    /\ registry = DefaultRegistry
    /\ functionsRegistry = NewFunctionsRegistry
    /\ schema \in TypedSchemas
    /\ expressions = <<>>
    /\ message = NotBuilt
    /\ call = NoCall
    /\ lastOp = NoOp
    /\ firstType = EmptyMap
    /\ firstFunction = EmptyMap
    /\ accepted = <<>>
    /\ params = BuilderParams_default
    /\ iter = NoIter
    /\ elements = <<>>
    /\ threads = NoThreads
    /\ lock = Unlocked
    /\ returned = {}
    /\ builders = <<>>

\* schema.resolve_type(ref_seg)
ResolveType(ref_seg) ==
    /\ lastOp = NoOp
    /\ \E r \in {resolve_type(schema, ref_seg, registry)} :
          /\ registry' = r.registry
          /\ lastOp' = [op |-> "resolve_type", ref_seg |-> ref_seg,
                        res |-> r.res, val |-> r.val]
    /\ UNCHANGED <<builders, threads, lock, returned, functionsRegistry, schema, expressions, message, call,
                   firstType, firstFunction, accepted, params, iter, elements>>

\* expr.output_type(schema)
OutputType(expr) ==
    /\ lastOp = NoOp
    /\ \E r \in {output_type(expr, schema, registry)} :
          /\ registry' = r.registry
          /\ lastOp' = [op |-> "output_type", expr |-> expr,
                        res |-> r.res, val |-> r.val]
    /\ UNCHANGED <<builders, threads, lock, returned, functionsRegistry, schema, expressions, message, call,
                   firstType, firstFunction, accepted, params, iter, elements>>

NextResolveType ==
    \/ \E s \in Segments : ResolveType(s)
    \/ \E e \in RootedExprs : OutputType(e)

SpecResolveType == InitResolveType /\ [][NextResolveType]_vars

-----------------------------------------------------------------------------
(* Claims about resolve_type, checked under SpecResolveType *)

\* the kinds of the steps of a reference, outermost first
RECURSIVE StepKinds(_)
StepKinds(seg) ==
    IF seg.reference_type = "none" THEN <<"none">>
    ELSE <<seg.reference_type>>
         \o (IF seg.child.some THEN StepKinds(seg.child.val) ELSE <<>>)

OnlyStructFields(seg) ==
    \A k \in 1..Len(StepKinds(seg)) : StepKinds(seg)[k] = "struct_field"

\* member i1 of types, then child i2 of that member, and so on; found is
\* FALSE when a position is out of range, which includes every position
\* below a field that is not a struct
RECURSIVE MemberWalk(_, _)
MemberWalk(types, indices) ==
    IF ~InRange(Head(indices), Len(types))
    THEN [found |-> FALSE, type |-> NoKind]
    ELSE IF Len(indices) = 1
    THEN [found |-> TRUE, type |-> types[Head(indices) + 1]]
    ELSE MemberWalk(children(types[Head(indices) + 1]), Tail(indices))

ResolvedTyped ==
    /\ lastOp.op = "resolve_type"
    /\ types_aware(schema)

\* C21 (as claimed): on a TypesOnly or Full schema a chain of struct-field
\* steps whose positions are all in range resolves to the type reached by
\* taking member i1 of the root, then child i2 of that member, and so on, for
\* chains of one step and of several steps alike.
C21_StructFieldChainResolvesToTheMember ==
    (/\ ResolvedTyped
     /\ OnlyStructFields(lastOp.ref_seg)
     /\ MemberWalk(RootTypes(schema), FieldIndices(lastOp.ref_seg)).found)
        => /\ lastOp.res = "Ok"
           /\ lastOp.val = MemberWalk(RootTypes(schema), FieldIndices(lastOp.ref_seg)).type

\* C22 (as claimed): on a TypesOnly or Full schema a chain of struct-field
\* steps that does not lead to a field (a position that is negative or not
\* below the number of members at its level, or a child step below a field
\* without children) makes resolve_type return an error value; it does not
\* abort.
C22_ReferenceOutsideTheSchemaIsAnErrorValue ==
    (/\ ResolvedTyped
     /\ OnlyStructFields(lastOp.ref_seg)
     /\ ~MemberWalk(RootTypes(schema), FieldIndices(lastOp.ref_seg)).found)
        => lastOp.res \in {"InvalidInput", "InvalidSubstrait"}

HasListOrMapStep(seg) ==
    \E k \in 1..Len(StepKinds(seg)) : StepKinds(seg)[k] \in {"list_element", "map_key"}

\* C27: on a TypesOnly or Full schema resolve_type never returns a type for a
\* reference with a list-element or map-key step, wherever the step stands in
\* the chain, and output_type never returns a type for a field reference
\* rooted at an expression or at an outer reference.
C27_ListAndMapStepsNeverResolve ==
    /\ (ResolvedTyped /\ HasListOrMapStep(lastOp.ref_seg)) => lastOp.res # "Ok"
    /\ (/\ lastOp.op = "output_type"
        /\ types_aware(schema)
        /\ \/ lastOp.expr.root_type \in {"expression", "outer_reference"}
           \/ HasListOrMapStep(lastOp.expr.direct_reference))
          => lastOp.res # "Ok"

\* a list step below a struct field that has children, on a Full schema
C27_Witness ==
    /\ ResolvedTyped
    /\ schema.variant = "Full"
    /\ StepKinds(lastOp.ref_seg) = <<"struct_field", "list_element", "struct_field">>
    /\ lastOp.ref_seg.field = 1
    /\ lastOp.res = "panic"

-----------------------------------------------------------------------------
(* helpers/registry.rs: several threads calling one ExtensionsRegistry.  A
   call takes the RwLock, runs RegistryInternal's method step by step and
   drops the guard when it returns *)

Threads == {"t1", "t2"}

\* every thread makes at most MaxCalls calls
MaxCalls == 2

Idle(calls) ==
    [pc |-> "idle", kind |-> "none", uri |-> <<>>, name |-> <<>>, anchor |-> 0,
     calls |-> calls]

\* a plausible slip: a writer waits for the readers only
write_blocked_by_readers_only(l) == l.readers # {}

\* RwLock::write blocks while the lock has a writer or readers
write_blocked(l) == l.writer # "none" \/ l.readers # {}

\* RwLock::read blocks while the lock has a writer
read_blocked(l) == l.writer # "none"

\* the map register_type / register_function looks the key up in
RegistryMap(internal, kind) ==
    IF kind = "type" THEN internal.types ELSE internal.functions

InitThreads ==
    /\ registry = DefaultRegistry
    /\ functionsRegistry = NewFunctionsRegistry
    /\ schema = EmptySchema
    /\ expressions = <<>>
    /\ message = NotBuilt
    /\ call = NoCall
    /\ lastOp = NoOp
    /\ firstType = EmptyMap
    /\ firstFunction = EmptyMap
    /\ accepted = <<>>
    /\ params = BuilderParams_default
    /\ iter = NoIter
    /\ elements = <<>>
    /\ threads = [t \in Threads |-> Idle(0)]
    /\ lock = Unlocked
    /\ returned = {}
    /\ builders = <<>>

\* a thread enters register_type (kind "type"), register_function_by_name
\* (kind "function") or lookup_type (kind "lookup")
CallRegistry(t, kind, uri, name, anchor) ==
    /\ threads[t].pc = "idle"
    /\ threads[t].calls < MaxCalls
    /\ threads' = [threads EXCEPT ![t] =
                      [pc |-> IF kind = "lookup" THEN "read" ELSE "write",
                       kind |-> kind, uri |-> uri, name |-> name, anchor |-> anchor,
                       calls |-> threads[t].calls + 1]]
    /\ UNCHANGED <<builders, registry, functionsRegistry, schema, expressions, message, call,
                   lastOp, firstType, firstFunction, accepted, params, iter,
                   elements, lock, returned>>

\* self.internal.write().unwrap()
WriteLock(t) ==
    /\ threads[t].pc = "write"
    /\ ~write_blocked(lock)
    /\ lock' = [lock EXCEPT !.writer = t]
    /\ threads' = [threads EXCEPT ![t].pc = "entry"]
    /\ UNCHANGED <<builders, registry, functionsRegistry, schema, expressions, message, call,
                   lastOp, firstType, firstFunction, accepted, params, iter,
                   elements, returned>>

\* self.types.entry(key) / self.functions.entry(key): an occupied entry gives
\* the stored anchor, a vacant one runs the closure
Entry(t) ==
    /\ threads[t].pc = "entry"
    /\ LET key == threads[t].uri \o threads[t].name
           map == RegistryMap(registry, threads[t].kind)
       IN  threads' = [threads EXCEPT ![t] =
                          IF key \in DOMAIN map
                          THEN [@ EXCEPT !.pc = "return", !.anchor = map[key].anchor]
                          ELSE [@ EXCEPT !.pc = "counter"]]
    /\ UNCHANGED <<builders, registry, functionsRegistry, schema, expressions, message, call,
                   lastOp, firstType, firstFunction, accepted, params, iter,
                   elements, lock, returned>>

\* let anchor = self.counter
ReadCounter(t) ==
    /\ threads[t].pc = "counter"
    /\ threads' = [threads EXCEPT ![t] = [@ EXCEPT !.pc = "bump",
                                                   !.anchor = registry.counter]]
    /\ UNCHANGED <<builders, registry, functionsRegistry, schema, expressions, message, call,
                   lastOp, firstType, firstFunction, accepted, params, iter,
                   elements, lock, returned>>

\* self.counter += 1
Bump(t) ==
    /\ threads[t].pc = "bump"
    /\ registry' = [registry EXCEPT !.counter = @ + 1]
    /\ threads' = [threads EXCEPT ![t].pc = "inverse"]
    /\ UNCHANGED <<builders, functionsRegistry, schema, expressions, message, call,
                   lastOp, firstType, firstFunction, accepted, params, iter,
                   elements, lock, returned>>

\* self.types_inverse.insert(anchor, record) / self.functions_inverse.insert
InsertInverse(t) ==
    /\ threads[t].pc = "inverse"
    /\ LET record == [uri |-> threads[t].uri, name |-> threads[t].name,
                      anchor |-> threads[t].anchor]
       IN  registry' =
              IF threads[t].kind = "type"
              THEN [registry EXCEPT
                      !.types_inverse = MapInsert(@, threads[t].anchor, record)]
              ELSE [registry EXCEPT
                      !.functions_inverse = MapInsert(@, threads[t].anchor, record)]
    /\ threads' = [threads EXCEPT ![t].pc = "insert"]
    /\ UNCHANGED <<builders, functionsRegistry, schema, expressions, message, call,
                   lastOp, firstType, firstFunction, accepted, params, iter,
                   elements, lock, returned>>

\* or_insert_with stores the record the closure returned under the key
InsertRecord(t) ==
    /\ threads[t].pc = "insert"
    /\ LET key == threads[t].uri \o threads[t].name
           record == [uri |-> threads[t].uri, name |-> threads[t].name,
                      anchor |-> threads[t].anchor]
       IN  registry' =
              IF threads[t].kind = "type"
              THEN [registry EXCEPT !.types = MapInsert(@, key, record)]
              ELSE [registry EXCEPT !.functions = MapInsert(@, key, record)]
    /\ threads' = [threads EXCEPT ![t].pc = "return"]
    /\ UNCHANGED <<builders, functionsRegistry, schema, expressions, message, call,
                   lastOp, firstType, firstFunction, accepted, params, iter,
                   elements, lock, returned>>

\* the method returns the anchor and the write guard is dropped
Return(t) ==
    /\ threads[t].pc = "return"
    /\ lock' = [lock EXCEPT !.writer = "none"]
    /\ returned' = returned \cup {[thread |-> t, kind |-> threads[t].kind,
                                   uri |-> threads[t].uri, name |-> threads[t].name,
                                   anchor |-> threads[t].anchor]}
    /\ threads' = [threads EXCEPT ![t] = Idle(threads[t].calls)]
    /\ UNCHANGED <<builders, registry, functionsRegistry, schema, expressions, message, call,
                   lastOp, firstType, firstFunction, accepted, params, iter,
                   elements>>

\* self.internal.read().unwrap()
ReadLock(t) ==
    /\ threads[t].pc = "read"
    /\ ~read_blocked(lock)
    /\ lock' = [lock EXCEPT !.readers = @ \cup {t}]
    /\ threads' = [threads EXCEPT ![t].pc = "lookup"]
    /\ UNCHANGED <<builders, registry, functionsRegistry, schema, expressions, message, call,
                   lastOp, firstType, firstFunction, accepted, params, iter,
                   elements, returned>>

\* internal.lookup_type(anchor) returns and the read guard is dropped
LookupReturn(t) ==
    /\ threads[t].pc = "lookup"
    /\ lock' = [lock EXCEPT !.readers = @ \ {t}]
    /\ lastOp' = [op |-> "lookup_type", anchor |-> threads[t].anchor,
                  ret |-> lookup_type(registry, threads[t].anchor)]
    /\ threads' = [threads EXCEPT ![t] = Idle(threads[t].calls)]
    /\ UNCHANGED <<builders, registry, functionsRegistry, schema, expressions, message, call,
                   firstType, firstFunction, accepted, params, iter, elements,
                   returned>>

ThreadPairs == {<<<<"a">>, <<"b">>>>, <<<<"a">>, <<"c">>>>}

NextThreads ==
    \E t \in Threads :
        \/ \E p \in ThreadPairs : CallRegistry(t, "type", p[1], p[2], 0)
        \/ \E p \in ThreadPairs : CallRegistry(t, "function", p[1], p[2], 0)
        \/ CallRegistry(t, "lookup", <<>>, <<>>, 1)
        \/ WriteLock(t)
        \/ Entry(t)
        \/ ReadCounter(t)
        \/ Bump(t)
        \/ InsertInverse(t)
        \/ InsertRecord(t)
        \/ Return(t)
        \/ ReadLock(t)
        \/ LookupReturn(t)

SpecThreads == InitThreads /\ [][NextThreads]_vars

-----------------------------------------------------------------------------
(* A claim about concurrent registration, checked under SpecThreads *)

\* the key a returned call registered: the map it went to and uri + name
KeyOf(r) == <<r.kind, r.uri \o r.name>>

Quiescent == \A t \in Threads : threads[t].pc = "idle"

InsideCall(t) ==
    threads[t].pc \in {"entry", "counter", "bump", "inverse", "insert", "return"}

\* C23: under every interleaving of register_type / register_function calls
\* of several threads on one registry, callers of the same key obtain the
\* same anchor and callers of different keys different anchors, the counter
\* ends at 1 + the number of distinct keys, and the lock is held only inside
\* a single call, by one caller at a time.
C23_ConcurrentRegistrationIsAtomic ==
    /\ \A r1, r2 \in returned : (KeyOf(r1) = KeyOf(r2)) <=> (r1.anchor = r2.anchor)
    /\ Quiescent => registry.counter = 1 + Cardinality({KeyOf(r) : r \in returned})
    /\ \A t \in Threads :
          /\ (lock.writer = t) <=> InsideCall(t)
          /\ (t \in lock.readers) <=> threads[t].pc = "lookup"
    /\ Quiescent => lock = Unlocked

\* both threads have registered the same key and one of them another key
C23_Witness ==
    /\ Quiescent
    /\ \E r1, r2, r3 \in returned :
          /\ r1.thread # r2.thread
          /\ KeyOf(r1) = KeyOf(r2)
          /\ KeyOf(r3) # KeyOf(r1)
          /\ r1.anchor = r2.anchor
          /\ r3.anchor # r1.anchor
    /\ registry.counter = 3

-----------------------------------------------------------------------------
(* builder/schema.rs: TypesOnlySchemaBuilder, the schema builder that hands
   out its type registry through types() *)

\* nested() callbacks are at most MaxNesting deep
MaxNesting == 2

\* TypesOnlySchemaBuilder::new
TypesOnlySchemaBuilder_new == [children |-> <<>>, registry |-> DefaultRegistry]

\* TypesOnlySchemaBuilder::field
TypesOnlySchemaBuilder_field(b, typ) == [b EXCEPT !.children = Append(@, typ)]

\* TypesOnlySchemaBuilder::nested, from the builder the callback returned:
\* nested_builder.build() keeps the types and the nested registry goes out of
\* scope with the built schema
TypesOnlySchemaBuilder_nested(b, nullable, nested_builder) ==
    TypesOnlySchemaBuilder_field(b, struct_(nested_builder.children, nullable))

\* TypesOnlySchemaBuilder::build
TypesOnlySchemaBuilder_build(b) ==
    [schema |-> TypesOnlySchema(b.children), registry |-> b.registry]

BuilderPairs == {QualifiedName(<<"a">>, <<"b">>), QualifiedName(<<"a">>, <<"c">>)}

CurrentBuilder == builders[Len(builders)]

InitSchemaBuilder ==
    /\ registry = DefaultRegistry
    /\ functionsRegistry = NewFunctionsRegistry
    /\ schema = EmptySchema
    /\ expressions = <<>>
    /\ message = NotBuilt
    /\ call = NoCall
    /\ lastOp = NoOp
    /\ firstType = EmptyMap
    /\ firstFunction = EmptyMap
    /\ accepted = <<>>
    /\ params = BuilderParams_default
    /\ iter = NoIter
    /\ elements = <<>>
    /\ threads = NoThreads
    /\ lock = Unlocked
    /\ returned = {}
    /\ builders = <<TypesOnlySchemaBuilder_new>>

Building == builders # <<>>

\* the fields declared so far, a running nested() callback counted as the
\* struct field it is going to add
Declared ==
    SumSeq([b \in 1..Len(builders) |->
               SumSeq([i \in 1..Len(builders[b].children) |->
                          num_types(builders[b].children[i])])])
    + Len(builders) - 1

\* builder.field(typ) with a builtin type
BuilderField(typ) ==
    /\ Building
    /\ Len(CurrentBuilder.children) < MaxFields
    /\ Declared <= MaxFields
    /\ builders' = [builders EXCEPT ![Len(builders)] =
                       TypesOnlySchemaBuilder_field(@, typ)]
    /\ lastOp' = [op |-> "field"]
    /\ UNCHANGED <<registry, functionsRegistry, schema, expressions, message, call,
                   firstType, firstFunction, accepted, params, iter, elements,
                   threads, lock, returned>>

\* builder.types().user_defined(uri, name), then
\* builder.field(it.with_nullability(nullable))
BuilderUserDefinedField(pair, nullable) ==
    /\ Building
    /\ Len(CurrentBuilder.children) < MaxFields
    /\ Declared <= MaxFields
    /\ \E r \in {register_type(CurrentBuilder.registry, pair.uri, pair.name)} :
          /\ builders' = [builders EXCEPT ![Len(builders)] =
                             TypesOnlySchemaBuilder_field(
                                 [@ EXCEPT !.registry = r.internal],
                                 user_defined(r.anchor, nullable))]
          /\ returned' = returned \cup {[builder |-> Len(builders), kind |-> "type",
                                         uri |-> pair.uri, name |-> pair.name,
                                         anchor |-> r.anchor]}
    /\ lastOp' = [op |-> "user_defined"]
    /\ UNCHANGED <<registry, functionsRegistry, schema, expressions, message, call,
                   firstType, firstFunction, accepted, params, iter, elements,
                   threads, lock>>

\* builder.nested(nullable, |nested| ..): the callback is entered with
\* Self::new()
EnterNested ==
    /\ Building
    /\ Len(builders) < MaxNesting
    /\ Len(CurrentBuilder.children) < MaxFields
    /\ Declared <= MaxFields
    /\ builders' = Append(builders, TypesOnlySchemaBuilder_new)
    /\ lastOp' = [op |-> "enter_nested"]
    /\ UNCHANGED <<registry, functionsRegistry, schema, expressions, message, call,
                   firstType, firstFunction, accepted, params, iter, elements,
                   threads, lock, returned>>

\* the callback returns its builder and nested() adds the struct to the
\* parent
LeaveNested(nullable) ==
    /\ Len(builders) > 1
    /\ builders' = [SubSeq(builders, 1, Len(builders) - 1)
                      EXCEPT ![Len(builders) - 1] =
                          TypesOnlySchemaBuilder_nested(@, nullable, CurrentBuilder)]
    /\ lastOp' = [op |-> "leave_nested"]
    /\ UNCHANGED <<registry, functionsRegistry, schema, expressions, message, call,
                   firstType, firstFunction, accepted, params, iter, elements,
                   threads, lock, returned>>

\* builder.build() on the root builder
BuildSchema ==
    /\ Len(builders) = 1
    /\ schema' = TypesOnlySchemaBuilder_build(CurrentBuilder).schema
    /\ registry' = TypesOnlySchemaBuilder_build(CurrentBuilder).registry
    /\ builders' = <<>>
    /\ lastOp' = [op |-> "schema_build"]
    /\ UNCHANGED <<functionsRegistry, expressions, message, call,
                   firstType, firstFunction, accepted, params, iter, elements,
                   threads, lock, returned>>

NextSchemaBuilder ==
    \/ BuilderField(i32(FALSE))
    \/ \E p \in BuilderPairs : \E n \in BOOLEAN : BuilderUserDefinedField(p, n)
    \/ EnterNested
    \/ \E n \in BOOLEAN : LeaveNested(n)
    \/ BuildSchema

SpecSchemaBuilder == InitSchemaBuilder /\ [][NextSchemaBuilder]_vars

-----------------------------------------------------------------------------
(* A claim about the registry of a built schema, checked under
   SpecSchemaBuilder *)

\* the anchors of the user defined types anywhere in a sequence of types
RECURSIVE UserDefinedAnchors(_)
UserDefinedAnchors(types) ==
    UNION {IF types[i].kind = "user_defined" THEN {types[i].type_reference}
           ELSE UserDefinedAnchors(children(types[i])) : i \in 1..Len(types)}

\* C25 (as claimed): a type registered through the registry of a nested
\* schema builder is present, with the same (uri, name) to anchor binding, in
\* the registry of the schema the parent builder builds, so every user
\* defined type anchor in the built schema resolves in that schema's registry
\* to the pair it was registered with.
C25_NestedRegistrationsReachTheBuiltSchema ==
    lastOp.op = "schema_build"
        => /\ \A r \in returned :
                 lookup_type(registry, r.anchor) = Some(QualifiedName(r.uri, r.name))
           /\ \A a \in UserDefinedAnchors(schema.types) : lookup_type(registry, a).some

-----------------------------------------------------------------------------
(* A claim about the types of a names-only schema, checked under SpecSchema *)

\* pre-order over a forest of names: a leaf name stands for the unknown type,
\* a name with children for a struct that mirrors its children; the structs
\* are listed only when include_inner is set
RECURSIVE PreOrderSynthesized(_, _, _)
PreOrderSynthesized(nodes, include_inner, unknown_type) ==
    IF nodes = <<>> THEN <<>>
    ELSE (IF Head(nodes).children = <<>> THEN <<unknown_type>>
          ELSE IF include_inner THEN <<as_type(Head(nodes), unknown_type)>>
          ELSE <<>>)
         \o PreOrderSynthesized(Head(nodes).children, include_inner, unknown_type)
         \o PreOrderSynthesized(Tail(nodes), include_inner, unknown_type)

\* C26 (as claimed): for a NamesOnly schema types_dfs is a pre-order
\* traversal of the types synthesized from the name tree: types_dfs(false)
\* yields one unknown type per leaf name and types_dfs(true) one type per
\* name, as many as names_dfs yields names.
C26_NamesOnlyTypesDfsIsPreOrder ==
    (lastOp.op = "types_dfs" /\ schema.variant = "Names")
        => /\ lastOp.types = PreOrderSynthesized(schema.children, lastOp.include_inner,
                                                 unknown(registry).typ)
           /\ lastOp.include_inner => Len(lastOp.types) = Len(names_dfs(schema).names)

-----------------------------------------------------------------------------
(* A claim about the serialized schema, checked under SpecSchema *)

\* C29 (as claimed): the NamedStruct of SchemaInfo::to_substrait has as many
\* names as the sum of num_types over the types of its struct, for every
\* schema variant and nesting shape; a schema that is not names-aware gets the
\* names field_0 .. field_{n-1}, one per emitted type.
C29_NamedStructHasOneNamePerType ==
    lastOp.op = "schema_to_substrait"
        => /\ Len(lastOp.names)
                = SumSeq([i \in 1..Len(lastOp.struct.types) |->
                             num_types(lastOp.struct.types[i])])
           /\ ~names_aware(schema)
                => lastOp.names = [i \in 1..Len(lastOp.struct.types) |->
                                      <<"f", "i", "e", "l", "d", "_">> \o to_string(i - 1)]

-----------------------------------------------------------------------------
(* A claim about list indices, checked under SpecResolve *)

\* an i32 offset has the numeric value of a u32 index
HasValueOf(offset, index) ==
    /\ offset >= 0
    /\ offset \div 65536 = index.hi
    /\ offset % 65536 = index.lo

\* the list indices among parsed elements, in order
RECURSIVE ListIndices(_)
ListIndices(els) ==
    IF els = <<>> THEN <<>>
    ELSE (IF Head(els).tag = "ListIndex" THEN <<Head(els).index>> ELSE <<>>)
         \o ListIndices(Tail(els))

\* the offsets of the list-element steps of a reference, outermost first
RECURSIVE ListOffsets(_)
ListOffsets(seg) ==
    (IF seg.reference_type = "list_element" THEN <<seg.offset>> ELSE <<>>)
    \o (IF seg.child.some THEN ListOffsets(seg.child.val) ELSE <<>>)

\* C30 (as claimed): for every list index in the u32 range, those above
\* 2^31 - 1 included, list_item(idx) and a path element ListIndex(idx) record
\* a list-element step whose offset has the numeric value idx; the offset is
\* never negative.
C30_ListOffsetIsTheIndex ==
    /\ (lastOp.op = "field_builder" /\ lastOp.call.call = "list_item" /\ lastOp.res = "Ok")
         => /\ lastOp.parts[1].reference_type = "list_element"
            /\ HasValueOf(lastOp.parts[1].offset, lastOp.call.index)
    /\ (lastOp.op = "resolve_by_name" /\ lastOp.res = "Ok"
          /\ lastOp.expr.rex_type = "selection")
         => LET indices == ListIndices(path_elements(NamedRefIter_new(lastOp.name)))
                offsets == ListOffsets(lastOp.expr.direct_reference)
            IN  /\ Len(offsets) = Len(indices)
                /\ \A k \in 1..Len(offsets) : HasValueOf(offsets[k], indices[k])

=============================================================================
